---- MODULE Spec2Model ----
(***************************************************************************)
(* A model of the history/reconciliation core of dynasty-analysis:         *)
(*   - getHistoricalLeagueIds      (utils/dataUtils.js)                    *)
(*   - LeagueProvider              (contexts/LeagueContext.js and the      *)
(*                                  older copy kept in App.js)             *)
(*   - the localStorage cache      (utils/cacheUtils.js)                   *)
(*   - fetchTransactions           (components/PlayerTradeHistoryModal.js) *)
(*                                                                         *)
(* League ids are 1..NumLeagues, seasons are integers (the code compares   *)
(* them through parseInt), null / undefined / '' / [] are None or the      *)
(* empty sequence.  A request to the data source is one action per         *)
(* outcome (resolved, rejected); everything a handler does between two     *)
(* awaits belongs to the action that resumes it.                           *)
(***************************************************************************)
EXTENDS Integers, Sequences, FiniteSets, TLC

\* null / undefined / '' (every falsy value the code tests with `!x`)
None == 0

\* ---- bounds of the model ------------------------------------------------
NumLeagues == 3
MaxLoads == 2
MaxEvents == 2
RaceChanges == 1
AppEvents == 1
TxEvents == 2
TxWeekCount == 2
MaxSortLen == 3
MaxTimestamp == 3
WinWeeks == 2
MaxPoints == 2
MaxWeeksToConsider == 3
MaxRosters == 2
MaxWins == 1
MaxPickNo == 2
TradePlayers == 2
Leagues == 1..NumLeagues

\* ---- program constants --------------------------------------------------
maxAttempts == 5
errorBreakAttempts == 2
DefaultSeason == 2025
firstBatchEnd == 6
secondBatchEnd == 12
maxWeeksToFetch == 17
maxWeeksToFetchApp == 18
DEFAULT_LEAGUE_ID == 1

VARIABLES
  world,   \* the data source: what each request would return
  hstart,  \* getHistoricalLeagueIds: the currentLeagueId argument
  hw,      \* getHistoricalLeagueIds: leagueIds, leagueId, attempts, position
  impl,    \* which LeagueProvider is mounted: "context" or "app"
  mode,    \* "seq": the user acts only between loads; "race": at any time
  events,  \* how many more rejected requests, expiries and user calls may occur
  \* React state of LeagueProvider
  leagueId, league, users, rosters, matchups, loading, error,
  availableSeasons, selectedSeason, seasonLeagueIds,
  allPlayersData, nflStateData,
  cache,     \* localStorage entries written by cacheUtils
  loads,     \* the fetchAllLeagueData invocations in flight (locals, position)
  last,      \* the locals of the invocation that finished most recently
  nflReqs,   \* getNflState requests in flight (the closure of each callback)
  playersReq,\* getAllPlayers request in flight
  nflDeps,   \* dependencies the NFL-state effect last ran with
  mainDeps,  \* dependencies the main effect last ran with
  calls,     \* how many times getNflState / getAllPlayers were called
  modal,     \* PlayerTradeHistoryModal: its React state and fetchTransactions
  call,      \* a utility function under study: its name and arguments
  result     \* what the call returned (NoResult before it has)

provVars == <<impl, mode, events, leagueId, league, users, rosters,
              matchups, loading, error, availableSeasons, selectedSeason,
              seasonLeagueIds, allPlayersData, nflStateData, cache, loads, last,
              nflReqs, playersReq, nflDeps, mainDeps, calls>>

vars == <<world, hstart, hw, modal, call, result, provVars>>

\* ---- the data source ----------------------------------------------------
\* league.previous_league_id of the league with id lid (None: no reference)
PrevOf(lid) == world.prev[lid]

\* every previous-league linkage over the leagues, cycles included
AllChains == [Leagues -> Leagues \cup {None}]

\* ---- getHistoricalLeagueIds ---------------------------------------------
\* const leagueIds = [currentLeagueId]; let leagueId = currentLeagueId;
\* let attempts = 0.  log records the outcome of every getLeagueFunc call.
WalkInit(start) ==
  [ids |-> <<start>>, cursor |-> start, attempts |-> 0,
   log |-> <<>>, running |-> TRUE]

\* WalkStep with a rejected fetch not counted as an attempt
WalkStepFailureNotCounted(w, out, prev) ==
  LET logged == [w EXCEPT !.log = Append(@, out)] IN
  IF out = "fail"
    THEN logged
    ELSE IF out = "null" \/ prev = None
      THEN [logged EXCEPT !.running = FALSE]
      ELSE [logged EXCEPT !.ids = Append(@, prev),
                          !.cursor = prev,
                          !.attempts = w.attempts + 1,
                          !.running = (w.attempts + 1 < maxAttempts)]

\* One iteration of `while (attempts < maxAttempts)`: the (delayed) call of
\* getLeagueFunc(leagueId) and what follows it up to the next loop test.
\*   out = "fail": the call rejected; "null": it resolved to null;
\*   out = "ok":   it resolved to a league whose previous_league_id is prev.
WalkStep(w, out, prev) ==
  LET logged == [w EXCEPT !.log = Append(@, out)] IN
  IF out = "fail"
    THEN LET a == w.attempts + 1 IN
         [logged EXCEPT !.attempts = a,
                        !.running = ~(a >= errorBreakAttempts) /\ a < maxAttempts]
    ELSE IF out = "null" \/ prev = None
      THEN [logged EXCEPT !.running = FALSE]
      ELSE [logged EXCEPT !.ids = Append(@, prev),
                          !.cursor = prev,
                          !.attempts = w.attempts + 1,
                          !.running = (w.attempts + 1 < maxAttempts)]

\* ---- the data source, continued -----------------------------------------
\* league.season of the league with id lid (None: the tag is missing)
SeasonOf(lid) == world.season[lid]

\* getMatchups(lid, week) resolves to records for the weeks the league has
\* played and to an empty list for the others
HasMatchups(lid, week) == week <= world.played[lid]

\* nflStateData.season and nflStateData.season_type
NflSeason == world.nfl.season
NflSeasonType == world.nfl.season_type

\* ---- utils/cacheUtils.js ------------------------------------------------
\* The store is a set of entries, at most one per (kind, leagueId, season);
\* expired stands for `now - timestamp > CACHE_EXPIRY`.
CacheEntry(kind, lid, season, data) ==
  [kind |-> kind, lid |-> lid, season |-> season, data |-> data, expired |-> FALSE]

CacheHits(c, kind, lid, season) ==
  {e \in c : e.kind = kind /\ e.lid = lid /\ e.season = season}

\* saveToCache(dataType, leagueId, season, data): the store after the call
saveToCache(c, kind, lid, season, data) ==
  IF lid = None \/ season = None
    THEN c
    ELSE (c \ CacheHits(c, kind, lid, season))
           \cup {CacheEntry(kind, lid, season, data)}

\* loadFromCache(dataType, leagueId, season): whether it returns data
CacheHas(c, kind, lid, season) ==
  /\ lid # None /\ season # None
  /\ \E e \in CacheHits(c, kind, lid, season) : ~e.expired

\* loadFromCache: the data returned on a hit
CacheData(c, kind, lid, season) ==
  (CHOOSE e \in CacheHits(c, kind, lid, season) : ~e.expired).data

\* loadFromCache: the store after the call (an expired entry is removed)
CacheAfterLoad(c, kind, lid, season) ==
  IF lid = None \/ season = None
    THEN c
    ELSE c \ {e \in CacheHits(c, kind, lid, season) : e.expired}

\* variant: the current season counts as cacheable
shouldUseCacheInclusive(season, currentNflSeason) ==
  IF season = None \/ currentNflSeason = None
    THEN FALSE
    ELSE season <= currentNflSeason

\* shouldUseCache(season, currentNflSeason)
shouldUseCache(season, currentNflSeason) ==
  IF season = None \/ currentNflSeason = None
    THEN FALSE
    ELSE season < currentNflSeason

\* ---- helpers ------------------------------------------------------------
Max(S) == CHOOSE x \in S : \A y \in S : y <= x

\* Object.keys(seasonsMap).sort((a, b) => parseInt(b) - parseInt(a))
RECURSIVE SortDesc(_)
SortDesc(S) ==
  IF S = {} THEN <<>> ELSE <<Max(S)>> \o SortDesc(S \ {Max(S)})

Range(q) == {q[i] : i \in DOMAIN q}

\* {} as a season -> leagueId object
EmptyMap == [y \in {} |-> None]

NoError == [kind |-> "none", lid |-> None]
\* `Failed to fetch data for League ID ${leagueId}. ...`
LeagueError(lid) == [kind |-> "league", lid |-> lid]
NflError == [kind |-> "nfl", lid |-> None]
PlayersError == [kind |-> "players", lid |-> None]

\* ---- LeagueProvider: fetchAllLeagueData --------------------------------
\* The operators below take the provider's state as a record s (the React
\* state, the store, the invocations in flight) and return it as it is when
\* invocation i next suspends on a request, or has finished.

IdleWalk ==
  [ids |-> <<>>, cursor |-> None, attempts |-> 0, log |-> <<>>, running |-> FALSE]

\* The locals of one invocation.  lid, season, clMatch, clLeague are the
\* values of leagueId, selectedSeason, matchups.length > 0 and league that
\* the effect closed over.  data holds currentLeagueData, leagueUsersData and
\* leagueRostersData, each naming the league whose data it is.  reads, writes,
\* live, mreq, mfail record what the invocation did: cache reads, cache
\* writes, kinds fetched live, weeks requested and weeks whose request rejected;
\* scanned holds the positions of historicalIds whose getLeague resolved in
\* the history scan.
IdleLoad ==
  [pc |-> "idle", lid |-> None, season |-> None, clMatch |-> FALSE,
   clLeague |-> None, hit |-> {}, am |-> <<>>, week |-> 0, w |-> IdleWalk,
   idx |-> 0, smap |-> EmptyMap,
   data |-> [league |-> None, users |-> None, rosters |-> None],
   scanned |-> {},
   reads |-> FALSE, writes |-> {}, live |-> {}, mreq |-> {}, mfail |-> {}]

\* no utility function is under study
NoCall == [fn |-> "none"]
NoResult == [returned |-> FALSE]

\* PlayerTradeHistoryModal before it is opened: no player, nothing fetched.
\* seasonLeagueIds and currentYear are what fetchTransactions closed over and
\* read; order, k and d are the two `for (const season in seasonLeagueIds)`
\* loops; skipped and processed record the seasons given up and the
\* (season, transaction id) pairs that reached the narration loop, narrated
\* the seasons that reached it, complete those whose transactions were
\* fetched with no week failing, viaCache the (kind, season) pairs read from
\* the store and stored the (kind, season) pairs written to it.
ModalClosed ==
  [player |-> None, loading |-> TRUE, transactions |-> <<>>, timers |-> 0,
   pc |-> "idle", seasonLeagueIds |-> EmptyMap, currentYear |-> None,
   order |-> <<>>, d |-> 0, k |-> 0,
   allSeasonsDrafts |-> {}, allSeasonsPicks |-> {},
   seenTransactionIds |-> {}, allTransactions |-> <<>>,
   skipped |-> {}, processed |-> {}, narrated |-> {}, complete |-> {},
   viaCache |-> {}, stored |-> {}]

UseCache(l) == impl = "context" /\ shouldUseCache(l.season, NflSeason)

\* const isFutureSeason
IsFutureSeason(l) == l.season # None /\ l.season > NflSeason

\* variant: anything but the post season counts as off season
OffSeasonButPost == NflSeasonType # "post"

\* nflStateData.season_type !== 'regular' && nflStateData.season_type !== 'post'
OffSeason == NflSeasonType # "regular" /\ NflSeasonType # "post"

\* getSeasonFromLeague(currentLeagueData) || nflStateData.season
CurrentLeagueSeason(l) ==
  IF SeasonOf(l.lid) # None THEN SeasonOf(l.lid) ELSE NflSeason

\* const maxWeeksToFetch
WeeksToFetch == IF impl = "context" THEN maxWeeksToFetch ELSE maxWeeksToFetchApp

\* finally { setLoading(false) }: the invocation is over
EndLoad(s, i, how) ==
  [s EXCEPT !.loading = FALSE,
            !.last = [s.loads[i] EXCEPT !.pc = how],
            !.loads[i] = IdleLoad]

\* variant: the catch block sets the error and keeps what was displayed
CatchLoadKeepsData(s, i) ==
  EndLoad([s EXCEPT !.error = LeagueError(s.loads[i].lid)], i, "failed")

\* catch (err): setError, clear the league data
CatchLoad(s, i) ==
  EndLoad([s EXCEPT !.error = LeagueError(s.loads[i].lid),
                    !.league = None, !.users = None, !.rosters = None,
                    !.matchups = <<>>], i, "failed")

\* defaultSeasonYears
DefaultSeasonYears == {NflSeason, NflSeason - 1, NflSeason - 2}

\* variant: only the current season is backfilled
BackfillCurrentOnly(smap, lid) ==
  [y \in DOMAIN smap \cup {NflSeason} |->
     IF y \in DOMAIN smap THEN smap[y] ELSE lid]

\* seasonsMap after defaultSeasonYears.forEach(...)
Backfill(smap, lid) ==
  [y \in DOMAIN smap \cup DefaultSeasonYears |->
     IF y \in DOMAIN smap THEN smap[y] ELSE lid]

\* setSeasonLeagueIds, setAvailableSeasons, the correction of selectedSeason
FinishLoad(s, i) ==
  LET l == s.loads[i]
      seasonsMap == Backfill(l.smap, l.lid)
      sortedAvailable == SortDesc(DOMAIN seasonsMap)
      sel == IF sortedAvailable # <<>> /\ l.season \notin Range(sortedAvailable)
               THEN sortedAvailable[1]
               ELSE IF sortedAvailable = <<>> THEN NflSeason
               ELSE s.selectedSeason
  IN EndLoad([s EXCEPT !.seasonLeagueIds = seasonsMap,
                       !.availableSeasons = sortedAvailable,
                       !.selectedSeason = sel], i, "ok")

\* if (id === leagueId && seasonsMap[currentLeagueSeason] === leagueId) continue
MapSkips(l, j) ==
  /\ l.w.ids[j] = l.lid
  /\ CurrentLeagueSeason(l) \in DOMAIN l.smap
  /\ l.smap[CurrentLeagueSeason(l)] = l.lid

\* for (const id of historicalIds): on to the next id that is fetched
MapAdvance(s, i) ==
  LET l == s.loads[i]
      todo == {j \in l.idx..Len(l.w.ids) : ~MapSkips(l, j)}
  IN IF todo = {}
       THEN FinishLoad(s, i)
       ELSE [s EXCEPT !.loads[i].pc = "map",
                      !.loads[i].idx = CHOOSE j \in todo : \A k \in todo : j <= k]

\* variant: a season outside the fallback years is not recorded
MapPutFallbackYearsOnly(smap, season, id) ==
  IF season # None /\ season \notin DOMAIN smap /\ season \in DefaultSeasonYears
    THEN [y \in DOMAIN smap \cup {season} |-> IF y = season THEN id ELSE smap[y]]
    ELSE smap

\* variant: a later league of the same season replaces the earlier one
MapPutLastWins(smap, season, id) ==
  IF season # None
    THEN [y \in DOMAIN smap \cup {season} |-> IF y = season THEN id ELSE smap[y]]
    ELSE smap

\* if (season && !seasonsMap[season]) seasonsMap[season] = id
MapPut(smap, season, id) ==
  IF season # None /\ season \notin DOMAIN smap
    THEN [y \in DOMAIN smap \cup {season} |-> IF y = season THEN id ELSE smap[y]]
    ELSE smap

\* await SleeperApiService.getLeague(id) of the history scan came back
OnMap(s, i, out) ==
  LET l == s.loads[i]
      id == l.w.ids[l.idx]
      smap == IF out = "ok" THEN MapPut(l.smap, SeasonOf(id), id) ELSE l.smap
  IN MapAdvance([s EXCEPT !.loads[i].smap = smap,
                          !.loads[i].scanned = IF out = "ok" THEN @ \cup {l.idx} ELSE @,
                          !.loads[i].idx = l.idx + 1], i)

\* historicalIds is back: const seasonsMap = {}; seasonsMap[currentLeagueSeason] = leagueId
AfterWalk(s, i) ==
  LET l == s.loads[i] IN
  MapAdvance([s EXCEPT !.loads[i].smap =
                          MapPut(EmptyMap, CurrentLeagueSeason(l), l.lid),
                       !.loads[i].idx = 1], i)

\* one getLeagueFunc call of getHistoricalLeagueIds came back
OnWalk(s, i, out) ==
  LET l == s.loads[i]
      w == WalkStep(l.w, out, PrevOf(l.w.cursor))
      s1 == [s EXCEPT !.loads[i].w = w]
  IN IF w.running THEN s1 ELSE AfterWalk(s1, i)

\* await getHistoricalLeagueIds(leagueId, SleeperApiService.getLeague)
ToWalk(s, i) ==
  [s EXCEPT !.loads[i].pc = "walk", !.loads[i].w = WalkInit(s.loads[i].lid)]

\* the matchups state once the week loops are over (or were skipped)
SetFinalMatchups(s, i) ==
  LET l == s.loads[i] IN
  IF impl = "context"
    THEN [s EXCEPT !.matchups = l.am]
    ELSE IF l.am = <<>> /\ l.clMatch /\ l.lid # l.clLeague
      THEN [s EXCEPT !.matchups = <<>>]
      ELSE IF l.am # <<>> THEN [s EXCEPT !.matchups = l.am] ELSE s

\* after the last week: cache the matchups of a past season, set the state
AfterWeeks(s, i) ==
  LET l == s.loads[i]
      save == UseCache(l) /\ l.am # <<>>
      s1 == IF save
              THEN [s EXCEPT !.cache = saveToCache(s.cache, "matchups", l.lid, l.season, l.am),
                             !.loads[i].writes = @ \cup {"matchups"}]
              ELSE s
  IN ToWalk(SetFinalMatchups(s1, i), i)

\* weekMatchups.forEach(matchup => matchup.week = week)
TagWeek(lid, week) == [lid |-> lid, week |-> week]

\* variant: a rejected week is not caught inside the loop
OnWeekRejectFails(s, i, out) ==
  LET l == s.loads[i]
      got == out = "ok" /\ HasMatchups(l.lid, l.week)
      am == IF got THEN Append(l.am, TagWeek(l.lid, l.week)) ELSE l.am
      s1 == [s EXCEPT !.loads[i].am = am,
                      !.loads[i].mreq = @ \cup {l.week},
                      !.loads[i].mfail = IF out = "fail" THEN @ \cup {l.week} ELSE @,
                      !.matchups = IF got /\ l.week \in {firstBatchEnd, secondBatchEnd}
                                     THEN am ELSE @]
  IN IF out = "fail"
       THEN CatchLoad(s1, i)
       ELSE IF l.week < WeeksToFetch
         THEN [s1 EXCEPT !.loads[i].week = l.week + 1]
         ELSE AfterWeeks(s1, i)

\* await SleeperApiService.getMatchups(leagueId, week) came back
OnWeek(s, i, out) ==
  LET l == s.loads[i]
      got == out = "ok" /\ HasMatchups(l.lid, l.week)
      am == IF got THEN Append(l.am, TagWeek(l.lid, l.week)) ELSE l.am
      s1 == [s EXCEPT !.loads[i].am = am,
                      !.loads[i].mreq = @ \cup {l.week},
                      !.loads[i].mfail = IF out = "fail" THEN @ \cup {l.week} ELSE @,
                      !.matchups = IF got /\ l.week \in {firstBatchEnd, secondBatchEnd}
                                     THEN am ELSE @]
  IN IF l.week < WeeksToFetch
       THEN [s1 EXCEPT !.loads[i].week = l.week + 1]
       ELSE AfterWeeks(s1, i)

\* variant: a future season is not told apart
FetchesMatchupsFutureToo(l) ==
  IF impl = "context"
    THEN /\ l.am = <<>>
         /\ ~(l.season = NflSeason /\ OffSeason)
    ELSE ~(CurrentLeagueSeason(l) = NflSeason /\ OffSeason)

\* whether the week loops run (context: skipMatchups; App.js: the else branch)
FetchesMatchups(l) ==
  IF impl = "context"
    THEN /\ l.am = <<>>
         /\ ~IsFutureSeason(l)
         /\ ~(l.season = NflSeason /\ OffSeason)
    ELSE /\ ~IsFutureSeason(l)
         /\ ~(CurrentLeagueSeason(l) = NflSeason /\ OffSeason)

\* setRosters(leagueRostersData), then the matchups
AfterRosters(s, i) ==
  LET l == s.loads[i]
      s1 == [s EXCEPT !.rosters = l.data.rosters]
  IN IF FetchesMatchups(l)
       THEN [s1 EXCEPT !.loads[i].pc = "week", !.loads[i].week = 1,
                       !.loads[i].am = IF impl = "context" THEN @ ELSE <<>>]
       ELSE IF impl = "context"
         THEN ToWalk(SetFinalMatchups(s1, i), i)
         ELSE ToWalk([s1 EXCEPT !.matchups = <<>>], i)

\* setUsers(leagueUsersData), then the rosters
AfterUsers(s, i) ==
  LET s1 == [s EXCEPT !.users = s.loads[i].data.users] IN
  IF "rosters" \in s.loads[i].hit
    THEN AfterRosters(s1, i)
    ELSE [s1 EXCEPT !.loads[i].pc = "rosters"]

\* setLeague(currentLeagueData), then the users
AfterLeague(s, i) ==
  LET s1 == [s EXCEPT !.league = s.loads[i].data.league] IN
  IF "users" \in s.loads[i].hit
    THEN AfterUsers(s1, i)
    ELSE [s1 EXCEPT !.loads[i].pc = "users"]

\* variant: what was fetched is never written to the store
FetchedNotCached(s, i, kind) ==
  [s EXCEPT !.loads[i].data[kind] = s.loads[i].lid,
            !.loads[i].live = @ \cup {kind}]

\* a live fetch of league, users or rosters resolved with the data of league
\* lid: cache it for a past season
Fetched(s, i, kind) ==
  LET l == s.loads[i] IN
  IF UseCache(l)
    THEN [s EXCEPT !.cache = saveToCache(s.cache, kind, l.lid, l.season, l.lid),
                   !.loads[i].data[kind] = l.lid,
                   !.loads[i].writes = @ \cup {kind},
                   !.loads[i].live = @ \cup {kind}]
    ELSE [s EXCEPT !.loads[i].data[kind] = l.lid,
                   !.loads[i].live = @ \cup {kind}]

\* await getLeague / getLeagueUsers / getLeagueRosters came back
OnLeague(s, i, out) ==
  IF out = "ok" THEN AfterLeague(Fetched(s, i, "league"), i) ELSE CatchLoad(s, i)

OnUsers(s, i, out) ==
  IF out = "ok" THEN AfterUsers(Fetched(s, i, "users"), i) ELSE CatchLoad(s, i)

OnRosters(s, i, out) ==
  IF out = "ok" THEN AfterRosters(Fetched(s, i, "rosters"), i) ELSE CatchLoad(s, i)

\* fetchAllLeagueData() up to its first await
StartLoad(s, i) ==
  LET lid == s.leagueId
      sel == s.selectedSeason
      l0 == [IdleLoad EXCEPT !.lid = lid, !.season = sel,
                             !.clMatch = (s.matchups # <<>>),
                             !.clLeague = s.league]
      use == UseCache(l0)
      kinds == {"league", "users", "rosters", "matchups"}
      hit == IF use THEN {k \in kinds : CacheHas(s.cache, k, lid, sel)} ELSE {}
      c1 == IF use
              THEN CacheAfterLoad(CacheAfterLoad(CacheAfterLoad(CacheAfterLoad(
                     s.cache, "league", lid, sel), "users", lid, sel),
                     "rosters", lid, sel), "matchups", lid, sel)
              ELSE s.cache
      l1 == [l0 EXCEPT !.hit = hit, !.reads = use,
                       !.data = [k \in {"league", "users", "rosters"} |->
                                   IF k \in hit THEN CacheData(s.cache, k, lid, sel)
                                   ELSE None],
                       !.am = IF "matchups" \in hit
                                THEN CacheData(s.cache, "matchups", lid, sel)
                                ELSE <<>>]
      s1 == [s EXCEPT !.loading = TRUE, !.error = NoError,
                      !.league = None, !.users = None, !.rosters = None,
                      !.matchups = <<>>, !.cache = c1, !.loads[i] = l1]
  IN IF "league" \in hit
       THEN AfterLeague(s1, i)
       ELSE [s1 EXCEPT !.loads[i].pc = "league"]

\* ---- LeagueProvider: effects --------------------------------------------
\* [leagueId, allPlayersData, nflStateData, selectedSeason]
MainDepsOf(s) == <<s.leagueId, s.allPlayersData, s.nflStateData, s.selectedSeason>>

FreeSlots(s) == {i \in DOMAIN s.loads : s.loads[i].pc = "idle"}

\* The main effect, run when its dependencies changed since it last ran.
\* overflow marks a run for which the model has no free invocation slot.
MainEffect(s) ==
  IF MainDepsOf(s) = s.mainDeps
    THEN s
    ELSE LET s1 == [s EXCEPT !.mainDeps = MainDepsOf(s)] IN
         IF ~s.allPlayersData \/ s.nflStateData = None
           THEN [s1 EXCEPT !.loading = TRUE]
           ELSE IF s.leagueId = None
             THEN [s1 EXCEPT !.loading = FALSE, !.league = None, !.users = None,
                             !.rosters = None, !.matchups = <<>>, !.error = NoError]
             ELSE IF FreeSlots(s) = {}
               THEN [s1 EXCEPT !.overflow = TRUE]
               ELSE StartLoad(s1, CHOOSE i \in FreeSlots(s) :
                                    \A j \in FreeSlots(s) : i <= j)

\* The NFL-state effect.  contexts/LeagueContext.js: dependencies [], it runs
\* on mount only.  App.js: [selectedSeason, availableSeasons.length].
NflDepsOf(s) == <<s.selectedSeason, Len(s.availableSeasons)>>

NflEffect(s) ==
  IF impl = "app" /\ NflDepsOf(s) # s.nflDeps
    THEN [s EXCEPT !.nflDeps = NflDepsOf(s),
                   !.nflReqs = Append(@, [sel |-> s.selectedSeason,
                                          len |-> Len(s.availableSeasons)]),
                   !.calls.nfl = @ + 1]
    ELSE s

\* the effects of one commit, in the order the component declares them
Effects(s) == MainEffect(NflEffect(s))

\* ---- LeagueProvider: callbacks ------------------------------------------
RemoveAt(q, k) == [j \in 1..(Len(q) - 1) |-> IF j < k THEN q[j] ELSE q[j + 1]]

\* getNflState().then(data => ...) of the request with closure nflReqs[k]
OnNflState(s, k) ==
  LET c == s.nflReqs[k]
      s1 == [s EXCEPT !.nflStateData = @ + 1, !.nflReqs = RemoveAt(@, k)]
  IN IF NflSeason # None /\ NflSeason # c.sel /\ c.len = 0
       THEN [s1 EXCEPT !.selectedSeason = NflSeason]
       ELSE s1

\* getNflState().catch(...)
OnNflStateError(s, k) ==
  [s EXCEPT !.nflReqs = RemoveAt(@, k),
            !.error = IF @ = NoError THEN NflError ELSE @]

\* getAllPlayers().then(setAllPlayersData)
OnAllPlayers(s) == [s EXCEPT !.allPlayersData = TRUE]

\* getAllPlayers().catch(...)
OnAllPlayersError(s) == [s EXCEPT !.error = IF @ = NoError THEN PlayersError ELSE @]

\* changeLeagueId(id), past its early return
changeLeagueId(s, id) == [s EXCEPT !.leagueId = id]

\* changeSeason(season), past its early return
changeSeason(s, season) ==
  LET newLeagueIdForSeason == s.seasonLeagueIds[season]
      s1 == IF impl = "context"
              THEN [s EXCEPT !.loading = TRUE, !.matchups = <<>>, !.rosters = None,
                             !.users = None, !.league = None]
              ELSE s
  IN [s1 EXCEPT !.selectedSeason = season,
                !.leagueId = IF newLeagueIdForSeason # s.leagueId
                               THEN newLeagueIdForSeason ELSE @]

\* ---- LeagueProvider: the state as a record, and back --------------------
Cur ==
  [leagueId |-> leagueId, league |-> league, users |-> users,
   rosters |-> rosters, matchups |-> matchups, loading |-> loading,
   error |-> error, availableSeasons |-> availableSeasons,
   selectedSeason |-> selectedSeason, seasonLeagueIds |-> seasonLeagueIds,
   allPlayersData |-> allPlayersData, nflStateData |-> nflStateData,
   cache |-> cache, loads |-> loads, last |-> last, nflReqs |-> nflReqs,
   nflDeps |-> nflDeps, mainDeps |-> mainDeps, calls |-> calls,
   overflow |-> FALSE]

Commit(s) ==
  /\ ~s.overflow
  /\ leagueId' = s.leagueId /\ league' = s.league /\ users' = s.users
  /\ rosters' = s.rosters /\ matchups' = s.matchups /\ loading' = s.loading
  /\ error' = s.error /\ availableSeasons' = s.availableSeasons
  /\ selectedSeason' = s.selectedSeason /\ seasonLeagueIds' = s.seasonLeagueIds
  /\ allPlayersData' = s.allPlayersData /\ nflStateData' = s.nflStateData
  /\ cache' = s.cache /\ loads' = s.loads /\ last' = s.last
  /\ nflReqs' = s.nflReqs /\ nflDeps' = s.nflDeps /\ mainDeps' = s.mainDeps
  /\ calls' = s.calls

\* the data source may reject a request while events are left (mode "seq")
Outcomes == {"ok", "fail"}
Allowed(out) == out = "ok" \/ (mode = "seq" /\ events > 0)
Spend(out) == events' = IF out = "fail" THEN events - 1 ELSE events

Slots == 1..MaxLoads
InFlight == {i \in Slots : loads[i].pc # "idle"}
Fixed == <<world, hstart, hw, modal, call, result, impl, mode>>

\* ---- LeagueProvider: actions --------------------------------------------
NflStateReturns ==
  \E k \in DOMAIN nflReqs, out \in Outcomes :
    /\ Allowed(out) /\ Spend(out)
    /\ Commit(Effects(IF out = "ok" THEN OnNflState(Cur, k)
                                    ELSE OnNflStateError(Cur, k)))
    /\ UNCHANGED <<Fixed, playersReq>>

AllPlayersReturns ==
  \E out \in Outcomes :
    /\ playersReq
    /\ Allowed(out) /\ Spend(out)
    /\ playersReq' = FALSE
    /\ Commit(Effects(IF out = "ok" THEN OnAllPlayers(Cur)
                                    ELSE OnAllPlayersError(Cur)))
    /\ UNCHANGED <<Fixed>>

GetLeagueReturns ==
  \E i \in Slots, out \in Outcomes :
    /\ loads[i].pc = "league"
    /\ Allowed(out) /\ Spend(out)
    /\ Commit(Effects(OnLeague(Cur, i, out)))
    /\ UNCHANGED <<Fixed, playersReq>>

GetLeagueUsersReturns ==
  \E i \in Slots, out \in Outcomes :
    /\ loads[i].pc = "users"
    /\ Allowed(out) /\ Spend(out)
    /\ Commit(Effects(OnUsers(Cur, i, out)))
    /\ UNCHANGED <<Fixed, playersReq>>

GetLeagueRostersReturns ==
  \E i \in Slots, out \in Outcomes :
    /\ loads[i].pc = "rosters"
    /\ Allowed(out) /\ Spend(out)
    /\ Commit(Effects(OnRosters(Cur, i, out)))
    /\ UNCHANGED <<Fixed, playersReq>>

GetMatchupsReturns ==
  \E i \in Slots, out \in Outcomes :
    /\ loads[i].pc = "week"
    /\ Allowed(out) /\ Spend(out)
    /\ Commit(Effects(OnWeek(Cur, i, out)))
    /\ UNCHANGED <<Fixed, playersReq>>

HistoryGetLeagueReturns ==
  \E i \in Slots, out \in Outcomes :
    /\ loads[i].pc = "walk"
    /\ Allowed(out) /\ Spend(out)
    /\ Commit(Effects(OnWalk(Cur, i, out)))
    /\ UNCHANGED <<Fixed, playersReq>>

ScanGetLeagueReturns ==
  \E i \in Slots, out \in Outcomes :
    /\ loads[i].pc = "map"
    /\ Allowed(out) /\ Spend(out)
    /\ Commit(Effects(OnMap(Cur, i, out)))
    /\ UNCHANGED <<Fixed, playersReq>>

\* no request of the provider is outstanding
Quiet == InFlight = {} /\ nflReqs = <<>> /\ ~playersReq

\* in mode "seq" the user waits until the provider is quiet
UserMayAct == events > 0 /\ (mode = "race" \/ Quiet)

ChangeLeagueId ==
  \E id \in Leagues :
    /\ UserMayAct
    /\ id # leagueId
    /\ events' = events - 1
    /\ Commit(Effects(changeLeagueId(Cur, id)))
    /\ UNCHANGED <<Fixed, playersReq>>

ChangeSeason ==
  \E season \in DOMAIN seasonLeagueIds :
    /\ UserMayAct
    /\ season # selectedSeason
    /\ events' = events - 1
    /\ Commit(Effects(changeSeason(Cur, season)))
    /\ UNCHANGED <<Fixed, playersReq>>

\* CACHE_EXPIRY passes: every entry of the store is now expired
CacheExpires ==
  /\ mode = "seq" /\ events > 0
  /\ InFlight = {}
  /\ \E e \in cache : ~e.expired
  /\ events' = events - 1
  /\ cache' = {[e EXCEPT !.expired = TRUE] : e \in cache}
  /\ UNCHANGED <<Fixed, playersReq, leagueId, league, users, rosters,
                 matchups, loading, error, availableSeasons, selectedSeason,
                 seasonLeagueIds, allPlayersData, nflStateData, loads, last,
                 nflReqs, nflDeps, mainDeps, calls>>

\* ---- LeagueProvider: the worlds it is run in ----------------------------
\* a chain 1 -> 2 -> ... of one league per year, this year's in mid-season
ChainWorld ==
  [prev |-> [l \in Leagues |-> IF l < NumLeagues THEN l + 1 ELSE None],
   season |-> [l \in Leagues |-> IF l < NumLeagues THEN DefaultSeason - (l - 1)
                                  ELSE DefaultSeason - NumLeagues],
   played |-> [l \in Leagues |-> IF l = 1 THEN firstBatchEnd + 1
                                  ELSE IF l = 2 THEN maxWeeksToFetch ELSE 0],
   nfl |-> [season |-> DefaultSeason, season_type |-> "regular"]]

\* off-season: league 1 is next year's league, leagues 2 and 3 both carry
\* this year's tag
OffWorld ==
  [prev |-> [l \in Leagues |-> IF l < NumLeagues THEN l + 1 ELSE None],
   season |-> [l \in Leagues |-> IF l = 1 THEN DefaultSeason + 1 ELSE DefaultSeason],
   played |-> [l \in Leagues |-> IF l = 1 THEN 0 ELSE 1],
   nfl |-> [season |-> DefaultSeason, season_type |-> "pre"]]

\* a chain that cycles, league 1 without a season tag, the NFL season one
\* year after the default selection
CycleWorld ==
  [prev |-> [l \in Leagues |-> (l % NumLeagues) + 1],
   season |-> [l \in Leagues |-> IF l = 1 THEN None ELSE DefaultSeason + 2 - l],
   played |-> [l \in Leagues |-> IF l = 1 THEN 0 ELSE secondBatchEnd],
   nfl |-> [season |-> DefaultSeason + 1, season_type |-> "post"]]

ProviderWorlds == {ChainWorld, OffWorld, CycleWorld}

\* what an earlier session's load of league lid for a past season left in
\* the store
EarlierSession(w, lid) ==
  LET season == w.season[lid]
      weeks == [k \in 1..w.played[lid] |-> TagWeek(lid, k)]
  IN {CacheEntry(k, lid, season, lid) : k \in {"league", "users", "rosters"}}
       \cup (IF weeks # <<>> THEN {CacheEntry("matchups", lid, season, weeks)} ELSE {})

\* the provider after construction: the three effects have run once
ProviderMounted ==
  /\ leagueId = DEFAULT_LEAGUE_ID /\ league = None /\ users = None
  /\ rosters = None /\ matchups = <<>> /\ loading = TRUE /\ error = NoError
  /\ availableSeasons = <<>> /\ selectedSeason = DefaultSeason
  /\ seasonLeagueIds = EmptyMap /\ allPlayersData = FALSE /\ nflStateData = None
  /\ loads = [i \in Slots |-> IdleLoad]
  /\ last = [IdleLoad EXCEPT !.pc = "none"]
  /\ nflReqs = <<[sel |-> DefaultSeason, len |-> 0]>>
  /\ playersReq = TRUE
  /\ nflDeps = <<DefaultSeason, 0>>
  /\ mainDeps = <<DEFAULT_LEAGUE_ID, FALSE, None, DefaultSeason>>
  /\ calls = [nfl |-> 1, players |-> 1]

\* a session of the provider: its world, what an earlier session cached
Session(i, m, n) ==
  /\ world \in ProviderWorlds
  /\ hstart = None /\ hw = IdleWalk
  /\ impl = i /\ mode = m /\ events = n
  /\ modal = ModalClosed /\ call = NoCall /\ result = NoResult
  /\ cache \in {{}} \cup {EarlierSession(world, 2) :
                           x \in {y \in {1} : shouldUseCache(world.season[2], world.nfl.season)}}
  /\ ProviderMounted

\* contexts/LeagueContext.js, the user acting between loads
Init == Session("context", "seq", MaxEvents)

Next ==
  \/ NflStateReturns
  \/ AllPlayersReturns
  \/ GetLeagueReturns
  \/ GetLeagueUsersReturns
  \/ GetLeagueRostersReturns
  \/ GetMatchupsReturns
  \/ HistoryGetLeagueReturns
  \/ ScanGetLeagueReturns
  \/ ChangeLeagueId
  \/ ChangeSeason
  \/ CacheExpires

Spec == Init /\ [][Next]_vars

\* a load waits for a getLeague answer of the history walk, of the scan
WalkPending == \E i \in Slots : loads[i].pc = "walk"
ScanPending == \E i \in Slots : loads[i].pc = "map"

\* Every request of the provider is answered in the end: it resolves or it
\* is rejected.  For the two getLeague loops weak fairness is written out,
\* <>[]ENABLED <<A>>_vars => []<><<A>>_vars, with the condition under which
\* the action is enabled as a state predicate.
Answered ==
  /\ WF_vars(NflStateReturns) /\ WF_vars(AllPlayersReturns)
  /\ WF_vars(GetLeagueReturns) /\ WF_vars(GetLeagueUsersReturns)
  /\ WF_vars(GetLeagueRostersReturns) /\ WF_vars(GetMatchupsReturns)
  /\ ([]<>~WalkPending \/ []<><<HistoryGetLeagueReturns>>_vars)
  /\ ([]<>~ScanPending \/ []<><<ScanGetLeagueReturns>>_vars)

\* contexts/LeagueContext.js as in Spec, no request staying unanswered
SpecAnswered == Init /\ [][Next]_vars /\ Answered

\* contexts/LeagueContext.js, the user acting while loads are in flight
InitRace == Session("context", "race", RaceChanges)

NextRace ==
  \/ NflStateReturns
  \/ AllPlayersReturns
  \/ GetLeagueReturns
  \/ GetLeagueUsersReturns
  \/ GetLeagueRostersReturns
  \/ GetMatchupsReturns
  \/ HistoryGetLeagueReturns
  \/ ScanGetLeagueReturns
  \/ ChangeLeagueId
  \/ ChangeSeason

SpecRace == InitRace /\ [][NextRace]_vars

\* the provider kept in App.js, the user acting between loads
InitApp == Session("app", "seq", AppEvents)

NextApp ==
  \/ NflStateReturns
  \/ AllPlayersReturns
  \/ GetLeagueReturns
  \/ GetLeagueUsersReturns
  \/ GetLeagueRostersReturns
  \/ GetMatchupsReturns
  \/ HistoryGetLeagueReturns
  \/ ScanGetLeagueReturns
  \/ ChangeLeagueId
  \/ ChangeSeason

SpecApp == InitApp /\ [][NextApp]_vars

\* ---- specification of the walk alone ------------------------------------
HistWorld(chain) ==
  [prev |-> chain, season |-> [l \in Leagues |-> None],
   played |-> [l \in Leagues |-> 0],
   nfl |-> [season |-> DefaultSeason, season_type |-> "regular"]]

InitHist ==
  /\ world \in {HistWorld(c) : c \in AllChains}
  /\ hstart \in Leagues
  /\ hw = WalkInit(hstart)
  /\ impl = "context" /\ mode = "seq" /\ events = 0
  /\ modal = ModalClosed /\ call = NoCall /\ result = NoResult
  /\ cache = {}
  /\ ProviderMounted

HistFetchOk ==
  /\ hw.running
  /\ hw' = WalkStep(hw, "ok", PrevOf(hw.cursor))
  /\ UNCHANGED <<world, hstart, modal, call, result, provVars>>

HistFetchNull ==
  /\ hw.running
  /\ hw' = WalkStep(hw, "null", None)
  /\ UNCHANGED <<world, hstart, modal, call, result, provVars>>

HistFetchFail ==
  /\ hw.running
  /\ hw' = WalkStep(hw, "fail", None)
  /\ UNCHANGED <<world, hstart, modal, call, result, provVars>>

NextHist == HistFetchOk \/ HistFetchNull \/ HistFetchFail

SpecHist == InitHist /\ [][NextHist]_vars

\* ---- components/PlayerTradeHistoryModal.js: fetchTransactions ------------
\* The operators below take x = [m |-> the modal, cache |-> the store] and
\* return it as it is when fetchTransactions next suspends, or has finished.

TxWeeks == 1..TxWeekCount

\* what the weekly transaction endpoints of league lid hold: one transaction
\* of the player per week, and one that does not involve the player
LeagueTransactions(lid) ==
  [j \in 1..(TxWeekCount + 1) |->
     [transaction_id |-> 10 * lid + j,
      week |-> IF j <= TxWeekCount THEN j ELSE 1,
      status_updated |-> 10 * (NumLeagues - lid) + (TxWeekCount + 1 - j),
      involves |-> j <= TxWeekCount]]

\* getTransactions(leagueId): the weekly fetches in failed resolve to []
getTransactions(lid, failed) ==
  SelectSeq(LeagueTransactions(lid), LAMBDA t : t.week \notin failed)

\* getLeagueDrafts(leagueId): the ids of the league's drafts
LeagueDrafts(lid) == <<lid>>

\* for (const season in seasonLeagueIds): integer-like keys, ascending
RECURSIVE SortAsc(_)
SortAsc(S) ==
  IF S = {} THEN <<>>
  ELSE LET m == CHOOSE x \in S : \A y \in S : x <= y
       IN <<m>> \o SortAsc(S \ {m})

\* allTransactions.sort((a, b) => a.timestamp - b.timestamp)
\* The comparator a.timestamp - b.timestamp is NaN when either timestamp is
\* undefined, and sort takes a NaN from its comparator for +0.
CompareTimestamps(a, b) ==
  IF a.timestamp = None \/ b.timestamp = None THEN 0 ELSE a.timestamp - b.timestamp

\* The sort is stable: an element moves left past the elements that the
\* comparator puts after it, and stops at the first that it does not.
RECURSIVE SortByTimestamp(_)
SortByTimestamp(q) ==
  IF q = <<>> THEN <<>>
  ELSE LET front == SortByTimestamp(SubSeq(q, 1, Len(q) - 1))
           e == q[Len(q)]
           n == Max({0} \cup {j \in DOMAIN front : CompareTimestamps(front[j], e) <= 0})
       IN SubSeq(front, 1, n) \o <<e>> \o SubSeq(front, n + 1, Len(front))

\* variant: nothing is taken for a duplicate
IsDuplicateNever(seen, t) == FALSE

\* transaction.transaction_id && seenTransactionIds.has(transaction.transaction_id)
IsDuplicate(seen, t) == t.transaction_id # None /\ t.transaction_id \in seen

\* one turn of `for (const transaction of playerTransactions)`
NarrateOne(m, t, season, lid) ==
  IF IsDuplicate(m.seenTransactionIds, t)
    THEN m
    ELSE [m EXCEPT
            !.seenTransactionIds =
               IF t.transaction_id # None THEN @ \cup {t.transaction_id} ELSE @,
            !.allTransactions =
               Append(@, [id |-> t.transaction_id, timestamp |-> t.status_updated,
                          season |-> season, leagueId |-> lid])]

RECURSIVE NarrateAll(_, _, _, _)
NarrateAll(m, q, season, lid) ==
  IF q = <<>> THEN m
  ELSE NarrateAll(NarrateOne(m, Head(q), season, lid), Tail(q), season, lid)

TxSeason(m) == m.order[m.k]
TxLeague(m) == m.seasonLeagueIds[m.order[m.k]]

\* the sort, setTransactions, and the finally block's setTimeout
FinishFetch(x) ==
  [x EXCEPT !.m.transactions = SortByTimestamp(x.m.allTransactions),
            !.m.pc = "done",
            !.m.timers = @ + 1]

RECURSIVE ToSeason(_, _)

\* leagueTransactions is known: filter, narrate, on to the next season
ProcessSeason(x, leagueTransactions) ==
  LET m == x.m
      playerTransactions == SelectSeq(leagueTransactions, LAMBDA t : t.involves)
      ids == {playerTransactions[j].transaction_id : j \in DOMAIN playerTransactions}
      m1 == NarrateAll(m, playerTransactions, TxSeason(m), TxLeague(m))
  IN ToSeason([x EXCEPT !.m = [m1 EXCEPT !.processed =
                                 @ \cup {<<TxSeason(m), id>> : id \in ids},
                                          !.narrated = @ \cup {TxSeason(m)}]],
              m.k + 1)

\* let leagueTransactions = loadFromCache('transactions', leagueId, season)
ToTransactions(x) ==
  LET season == TxSeason(x.m)
      lid == TxLeague(x.m)
      x1 == [x EXCEPT !.cache = CacheAfterLoad(@, "transactions", lid, season)]
  IN IF CacheHas(x.cache, "transactions", lid, season)
       THEN ProcessSeason([x1 EXCEPT !.m.viaCache = @ \cup {<<"transactions", season>>}],
                          CacheData(x.cache, "transactions", lid, season))
       ELSE [x1 EXCEPT !.m.pc = "transactions"]

\* let histUsers = loadFromCache('users', leagueId, season)
ToUsers(x) ==
  LET season == TxSeason(x.m)
      lid == TxLeague(x.m)
      x1 == [x EXCEPT !.cache = CacheAfterLoad(@, "users", lid, season)]
  IN IF CacheHas(x.cache, "users", lid, season)
       THEN ToTransactions([x1 EXCEPT !.m.viaCache = @ \cup {<<"users", season>>}])
       ELSE [x1 EXCEPT !.m.pc = "users"]

\* variant: a rejected rosters or users fetch ends the whole operation
SkipSeasonAborts(x) ==
  [x EXCEPT !.m.skipped = @ \cup {TxSeason(x.m)}, !.m.pc = "done",
            !.m.timers = @ + 1]

\* the season's catch block: the season is given up
SkipSeason(x) ==
  ToSeason([x EXCEPT !.m.skipped = @ \cup {TxSeason(x.m)}], x.m.k + 1)

\* the head of the second loop: historical rosters, from the cache or fetched
ToSeason(x, k) ==
  IF k > Len(x.m.order)
    THEN FinishFetch([x EXCEPT !.m.k = k])
    ELSE LET season == x.m.order[k]
             lid == x.m.seasonLeagueIds[season]
             x1 == [x EXCEPT !.m.k = k,
                             !.cache = CacheAfterLoad(@, "rosters", lid, season)]
         IN IF CacheHas(x.cache, "rosters", lid, season)
              THEN ToUsers([x1 EXCEPT !.m.viaCache = @ \cup {<<"rosters", season>>}])
              ELSE [x1 EXCEPT !.m.pc = "rosters"]

\* await getLeagueRosters(leagueId) of the season came back
OnHistRosters(x, out) ==
  IF out = "ok"
    THEN ToUsers([x EXCEPT !.cache = saveToCache(@, "rosters", TxLeague(x.m),
                                                 TxSeason(x.m), <<>>),
                           !.m.stored = @ \cup {<<"rosters", TxSeason(x.m)>>}])
    ELSE SkipSeason(x)

\* await getLeagueUsers(leagueId) of the season came back
OnHistUsers(x, out) ==
  IF out = "ok"
    THEN ToTransactions([x EXCEPT !.cache = saveToCache(@, "users", TxLeague(x.m),
                                                        TxSeason(x.m), <<>>),
                                  !.m.stored = @ \cup {<<"users", TxSeason(x.m)>>}])
    ELSE SkipSeason(x)

\* await getTransactions(leagueId) came back, the weeks in failed empty
OnTransactions(x, failed) ==
  LET leagueTransactions == getTransactions(TxLeague(x.m), failed) IN
  ProcessSeason([x EXCEPT !.cache = saveToCache(@, "transactions", TxLeague(x.m),
                                                TxSeason(x.m), leagueTransactions),
                          !.m.stored = @ \cup {<<"transactions", TxSeason(x.m)>>},
                          !.m.complete = IF failed = {} THEN @ \cup {TxSeason(x.m)} ELSE @],
                leagueTransactions)

RECURSIVE ToDraftSeason(_, _)

\* for (const draft of draftsForSeason): picks not fetched yet are awaited
\* (saveToCache('draft_picks', id, null, ...) stores nothing, so
\* loadFromCache('draft_picks', id) finds nothing)
ToPicks(x, draftsForSeason) ==
  LET season == x.m.order[x.m.d]
      x1 == [x EXCEPT !.m.allSeasonsDrafts = @ \cup {season}]
      todo == {j \in DOMAIN draftsForSeason :
                 draftsForSeason[j] \notin x.m.allSeasonsPicks}
  IN IF todo = {}
       THEN ToDraftSeason(x1, x.m.d + 1)
       ELSE [x1 EXCEPT !.m.pc = "picks"]

\* variant: the drafts of the current year's season are preloaded too
ToDraftSeasonInclusive(x, d) ==
  LET todo == {j \in d..Len(x.m.order) : x.m.order[j] <= x.m.currentYear} IN
  IF todo = {}
    THEN ToSeason([x EXCEPT !.m.d = Len(x.m.order) + 1], 1)
    ELSE LET j == CHOOSE a \in todo : \A b \in todo : a <= b
             season == x.m.order[j]
             lid == x.m.seasonLeagueIds[season]
             x1 == [x EXCEPT !.m.d = j,
                             !.cache = CacheAfterLoad(@, "drafts", lid, season)]
         IN IF CacheHas(x.cache, "drafts", lid, season)
              THEN ToPicks(x1, CacheData(x.cache, "drafts", lid, season))
              ELSE [x1 EXCEPT !.m.pc = "drafts"]

\* the head of the first loop: the drafts of the next season before currentYear
ToDraftSeason(x, d) ==
  LET todo == {j \in d..Len(x.m.order) : x.m.order[j] < x.m.currentYear} IN
  IF todo = {}
    THEN ToSeason([x EXCEPT !.m.d = Len(x.m.order) + 1], 1)
    ELSE LET j == CHOOSE a \in todo : \A b \in todo : a <= b
             season == x.m.order[j]
             lid == x.m.seasonLeagueIds[season]
             x1 == [x EXCEPT !.m.d = j,
                             !.cache = CacheAfterLoad(@, "drafts", lid, season)]
         IN IF CacheHas(x.cache, "drafts", lid, season)
              THEN ToPicks(x1, CacheData(x.cache, "drafts", lid, season))
              ELSE [x1 EXCEPT !.m.pc = "drafts"]

\* await getLeagueDrafts(leagueId) came back
OnDrafts(x, out) ==
  LET season == x.m.order[x.m.d]
      lid == x.m.seasonLeagueIds[season]
  IN IF out = "ok"
       THEN ToPicks([x EXCEPT !.cache = saveToCache(@, "drafts", lid, season,
                                                    LeagueDrafts(lid))],
                    LeagueDrafts(lid))
       ELSE ToPicks(x, <<>>)

\* await getDraftPicks(draft.draft_id) came back; rejected picks are []
OnPicks(x, out) ==
  LET lid == x.m.seasonLeagueIds[x.m.order[x.m.d]] IN
  ToDraftSeason([x EXCEPT !.m.allSeasonsPicks = @ \cup Range(LeagueDrafts(lid))],
                x.m.d + 1)

\* the modal is mounted for player p: state as constructed, the effect has run
StartFetch(c, p, map, year) ==
  LET m0 == [ModalClosed EXCEPT !.player = p, !.seasonLeagueIds = map,
                                !.currentYear = year,
                                !.order = SortAsc(DOMAIN map)]
      x0 == [m |-> m0, cache |-> c]
  IN IF p = None
       THEN [x0 EXCEPT !.m.loading = FALSE, !.m.pc = "done"]
       ELSE ToDraftSeason(x0, 1)

\* ---- PlayerTradeHistoryModal: actions -----------------------------------
TxCur == [m |-> modal, cache |-> cache]
TxCommit(x) == modal' = x.m /\ cache' = x.cache
TxFrame == <<world, hstart, hw, call, result, impl, mode, leagueId, league, users, rosters,
             matchups, loading, error, availableSeasons, selectedSeason,
             seasonLeagueIds, allPlayersData, nflStateData, loads, last,
             nflReqs, playersReq, nflDeps, mainDeps, calls>>

GetLeagueDraftsReturns ==
  \E out \in Outcomes :
    /\ modal.pc = "drafts"
    /\ Allowed(out) /\ Spend(out)
    /\ TxCommit(OnDrafts(TxCur, out))
    /\ UNCHANGED TxFrame

GetDraftPicksReturns ==
  \E out \in Outcomes :
    /\ modal.pc = "picks"
    /\ Allowed(out) /\ Spend(out)
    /\ TxCommit(OnPicks(TxCur, out))
    /\ UNCHANGED TxFrame

HistRostersReturn ==
  \E out \in Outcomes :
    /\ modal.pc = "rosters"
    /\ Allowed(out) /\ Spend(out)
    /\ TxCommit(OnHistRosters(TxCur, out))
    /\ UNCHANGED TxFrame

HistUsersReturn ==
  \E out \in Outcomes :
    /\ modal.pc = "users"
    /\ Allowed(out) /\ Spend(out)
    /\ TxCommit(OnHistUsers(TxCur, out))
    /\ UNCHANGED TxFrame

\* each weekly fetch that fails inside getTransactions is one rejected request
GetTransactionsReturns ==
  \E failed \in SUBSET TxWeeks :
    /\ modal.pc = "transactions"
    /\ Cardinality(failed) <= events
    /\ events' = events - Cardinality(failed)
    /\ TxCommit(OnTransactions(TxCur, failed))
    /\ UNCHANGED TxFrame

\* setTimeout(() => setLoading(false), 300)
LoadingTimerFires ==
  /\ modal.timers > 0
  /\ modal' = [modal EXCEPT !.timers = @ - 1, !.loading = FALSE]
  /\ UNCHANGED <<TxFrame, cache, events>>

\* the user closes the modal after the fetch and opens it again
ReopenModal ==
  \E p \in {None, 1} :
    /\ modal.pc = "done" /\ events > 0
    /\ events' = events - 1
    /\ TxCommit(StartFetch(cache, p, seasonLeagueIds, modal.currentYear))
    /\ UNCHANGED TxFrame

\* the provider after a load of DEFAULT_LEAGUE_ID that left seasonsMap
ProviderLoaded(seasonsMap) ==
  /\ leagueId = DEFAULT_LEAGUE_ID /\ league = DEFAULT_LEAGUE_ID
  /\ users = DEFAULT_LEAGUE_ID /\ rosters = DEFAULT_LEAGUE_ID
  /\ matchups = <<>> /\ loading = FALSE /\ error = NoError
  /\ seasonLeagueIds = seasonsMap
  /\ availableSeasons = SortDesc(DOMAIN seasonsMap)
  /\ selectedSeason = DefaultSeason
  /\ allPlayersData = TRUE /\ nflStateData = 1
  /\ loads = [i \in Slots |-> IdleLoad]
  /\ last = [IdleLoad EXCEPT !.pc = "ok", !.lid = DEFAULT_LEAGUE_ID,
                             !.season = DefaultSeason]
  /\ nflReqs = <<>> /\ playersReq = FALSE
  /\ nflDeps = <<DefaultSeason, 0>>
  /\ mainDeps = <<DEFAULT_LEAGUE_ID, TRUE, 1, DefaultSeason>>
  /\ calls = [nfl |-> 1, players |-> 1]

\* seasonsMap of a load whose history walk failed: the start league under
\* every fallback year
AliasMap == Backfill(MapPut(EmptyMap, SeasonOf(DEFAULT_LEAGUE_ID), DEFAULT_LEAGUE_ID),
                     DEFAULT_LEAGUE_ID)

\* seasonsMap of a load that walked the whole chain
ChainMap ==
  Backfill([y \in {SeasonOf(l) : l \in Leagues} |->
              CHOOSE l \in Leagues : SeasonOf(l) = y], DEFAULT_LEAGUE_ID)

\* the modal opened over a loaded provider
InitTx ==
  /\ world = ChainWorld
  /\ hstart = None /\ hw = IdleWalk
  /\ impl = "context" /\ mode = "seq" /\ events = TxEvents
  /\ call = NoCall /\ result = NoResult
  /\ \E map \in {AliasMap, ChainMap}, year \in {DefaultSeason, DefaultSeason + 1} :
       /\ ProviderLoaded(map)
       /\ modal = StartFetch({}, 1, map, year).m
       /\ cache = StartFetch({}, 1, map, year).cache

NextTx ==
  \/ GetLeagueDraftsReturns
  \/ GetDraftPicksReturns
  \/ HistRostersReturn
  \/ HistUsersReturn
  \/ GetTransactionsReturns
  \/ LoadingTimerFires
  \/ ReopenModal

SpecTx == InitTx /\ [][NextTx]_vars

\* ---- utility functions on their own -------------------------------------
\* everything but the call under study: the provider as constructed, the
\* modal closed
NothingElse ==
  /\ world = ChainWorld
  /\ hstart = None /\ hw = IdleWalk
  /\ impl = "context" /\ mode = "seq" /\ events = 0
  /\ modal = ModalClosed
  /\ cache = {}
  /\ ProviderMounted

PureFrame == <<world, hstart, hw, modal, call, provVars>>

Returned(v) == [returned |-> TRUE, value |-> v]

\* allTransactions before the sort: events in the order the seasons and the
\* data source gave them, status_updated undefined (None) or a time
Timestamps == {None} \cup (1..MaxTimestamp)
EventLists(most) ==
  UNION {{[i \in 1..n |-> [id |-> i, timestamp |-> f[i]]] : f \in [1..n -> Timestamps]}
           : n \in 0..most}

InitSort ==
  /\ NothingElse
  /\ call \in {[fn |-> "sort", allTransactions |-> q] : q \in EventLists(MaxSortLen)}
  /\ result = NoResult

SortTransactions ==
  /\ call.fn = "sort" /\ ~result.returned
  /\ result' = Returned(SortByTimestamp(call.allTransactions))
  /\ UNCHANGED PureFrame

NextSort == SortTransactions

SpecSort == InitSort /\ [][NextSort]_vars

\* ---- utils/dataUtils.js: calculateWinRate --------------------------------
\* A matchup record is [week, matchup_id, roster_id, points].  The two copies
\* of dataUtils.js differ: the one in src/unnamed/part_002 groups by week and
\* matchup_id, the one in src/src/utils/dataUtils.js by matchup_id alone.

\* totalGames > 0 ? (wins / totalGames) * 100 : 0, as a fraction
WinRate(wins, totalGames) ==
  [wins |-> wins, totalGames |-> totalGames,
   rate |-> IF totalGames > 0 THEN <<100 * wins, totalGames>> ELSE <<0, 1>>]

\* group.find(m => m.roster_id !== parseInt(rosterId)): its index (0: none)
FirstOther(ms, group, rosterId) ==
  LET others == {j \in group : ms[j].roster_id # rosterId} IN
  IF others = {} THEN 0 ELSE CHOOSE j \in others : \A k \in others : j <= k

\* calculateWinRate of src/unnamed/part_002 (ms: its matchups argument)
calculateWinRate(ms, rosterId) ==
  LET teamMatchups == {i \in DOMAIN ms : ms[i].roster_id = rosterId}
      matchupGroup(i) == {j \in DOMAIN ms :
                            /\ ms[j].week = ms[i].week
                            /\ ms[j].matchup_id = ms[i].matchup_id}
      opponent(i) == FirstOther(ms, matchupGroup(i), rosterId)
      games == {i \in teamMatchups :
                  Cardinality(matchupGroup(i)) >= 2 /\ opponent(i) # 0}
      won == {i \in games : ms[i].points > ms[opponent(i)].points}
  IN IF ms = <<>> \/ teamMatchups = {}
       THEN WinRate(0, 0)
       ELSE WinRate(Cardinality(won), Cardinality(games))

\* calculateWinRate of src/src/utils/dataUtils.js
calculateWinRateUtils(ms, rosterId) ==
  LET ids == {ms[i].matchup_id : i \in DOMAIN ms}
      weekMatchup(id) == {j \in DOMAIN ms : ms[j].matchup_id = id}
      team(id) == {j \in weekMatchup(id) : ms[j].roster_id = rosterId}
      teamMatchup(id) == CHOOSE j \in team(id) : \A k \in team(id) : j <= k
      opponent(id) == FirstOther(ms, weekMatchup(id), rosterId)
      games == {id \in ids : team(id) # {} /\ opponent(id) # 0}
      won == {id \in games :
                ms[teamMatchup(id)].points > ms[opponent(id)].points}
  IN IF ms = <<>>
       THEN WinRate(0, 0)
       ELSE WinRate(Cardinality(won), Cardinality(games))

\* One week of a four-team league as the provider accumulates it: roster 1
\* plays roster 2 under pair id a, rosters 3 and 4 play under the other id.
WeekOf(week, a, p1, p2) ==
  << [week |-> week, matchup_id |-> a, roster_id |-> 1, points |-> p1],
     [week |-> week, matchup_id |-> a, roster_id |-> 2, points |-> p2],
     [week |-> week, matchup_id |-> 3 - a, roster_id |-> 3, points |-> 1],
     [week |-> week, matchup_id |-> 3 - a, roster_id |-> 4, points |-> 0] >>

RECURSIVE Seasons(_)
Seasons(n) ==
  IF n = 0 THEN {<<>>}
  ELSE {s \o WeekOf(n, a, p1, p2) :
          s \in Seasons(n - 1), a \in 1..2, p1 \in 0..MaxPoints, p2 \in 0..MaxPoints}

MatchupLists(weeks) == UNION {Seasons(n) : n \in 0..weeks}

InitWinRate ==
  /\ NothingElse
  /\ call \in {[fn |-> f, matchups |-> q, rosterId |-> r] :
                 f \in {"calculateWinRate", "calculateWinRateUtils"},
                 q \in MatchupLists(WinWeeks), r \in {1, 3, 5}}
  /\ result = NoResult

CalculateWinRate ==
  /\ call.fn = "calculateWinRate" /\ ~result.returned
  /\ result' = Returned(calculateWinRate(call.matchups, call.rosterId))
  /\ UNCHANGED PureFrame

CalculateWinRateUtils ==
  /\ call.fn = "calculateWinRateUtils" /\ ~result.returned
  /\ result' = Returned(calculateWinRateUtils(call.matchups, call.rosterId))
  /\ UNCHANGED PureFrame

NextWinRate == CalculateWinRate \/ CalculateWinRateUtils

SpecWinRate == InitWinRate /\ [][NextWinRate]_vars

\* ---- utils/dataUtils.js: getTrendingTeams ---------------------------------
\* A trend is a fraction <<numerator, denominator>>, denominator > 0.

\* b.trend - a.trend: its sign
CompareTrends(a, b) == b.trend[1] * a.trend[2] - a.trend[1] * b.trend[2]

\* .sort((a, b) => b.trend - a.trend), stable
RECURSIVE SortByTrend(_)
SortByTrend(q) ==
  IF q = <<>> THEN <<>>
  ELSE LET front == SortByTrend(SubSeq(q, 1, Len(q) - 1))
           e == q[Len(q)]
           n == Max({0} \cup {j \in DOMAIN front : CompareTrends(front[j], e) <= 0})
       IN SubSeq(front, 1, n) \o <<e>> \o SubSeq(front, n + 1, Len(front))

\* Object.keys(matchupsByWeek).map(Number).sort((a, b) => b - a).slice(0, n)
RecentWeeks(ms, n) ==
  LET sortedWeeks == SortDesc({ms[i].week : i \in DOMAIN ms})
  IN SubSeq(sortedWeeks, 1, IF n < Len(sortedWeeks) THEN n ELSE Len(sortedWeeks))

\* the last record of roster r in week w (a later record overwrites
\* weeklyPoints[week]); 0 when it has none
LastRecord(ms, r, w) ==
  LET recs == {i \in DOMAIN ms : ms[i].roster_id = r /\ ms[i].week = w}
  IN IF recs = {} THEN 0 ELSE Max(recs)

RECURSIVE SumOver(_, _)
SumOver(f, S) ==
  IF S = {} THEN 0
  ELSE LET x == CHOOSE y \in S : TRUE IN f[x] + SumOver(f, S \ {x})

\* Object.values(teamPerformance): one entry per roster, ascending roster id
TeamsOf(ms, weeks) ==
  SortAsc({ms[i].roster_id : i \in {j \in DOMAIN ms : ms[j].week \in Range(weeks)}})

\* getTrendingTeams of src/unnamed/part_002 (ms, us: its matchups and users)
getTrendingTeams(ms, us, weeksToConsider) ==
  LET weeksToUse == RecentWeeks(ms, weeksToConsider)
      teams == TeamsOf(ms, weeksToUse)
      pts(r) == [w \in Range(weeksToUse) |->
                   IF LastRecord(ms, r, w) = 0 THEN 0 ELSE ms[LastRecord(ms, r, w)].points]
      previous(r) == {w \in Range(weeksToUse) :
                        w # weeksToUse[1] /\ LastRecord(ms, r, w) # 0}
      trend(r) ==
        LET count == Cardinality(previous(r))
            sum == SumOver(pts(r), previous(r))
        IN IF count > 0
             THEN <<pts(r)[weeksToUse[1]] * count - sum, count>>
             ELSE <<pts(r)[weeksToUse[1]], 1>>
  IN IF ms = <<>> \/ us = None THEN <<>>
     ELSE IF Len(weeksToUse) < 2 THEN <<>>
     ELSE SortByTrend([k \in DOMAIN teams |->
                         [rosterId |-> teams[k], trend |-> trend(teams[k])]])

\* getTrendingTeams of src/src/utils/dataUtils.js
getTrendingTeamsUtils(ms, us, weeksToConsider) ==
  LET weeks == RecentWeeks(ms, weeksToConsider)
      teams == TeamsOf(ms, weeks)
      \* team.points: the roster's records, most recent week first
      mine(r) == {i \in DOMAIN ms : ms[i].roster_id = r /\ ms[i].week \in Range(weeks)}
      first(r) == CHOOSE i \in mine(r) :
                    \A j \in mine(r) : ms[j].week < ms[i].week
                                         \/ (ms[j].week = ms[i].week /\ i <= j)
      pts(r) == [i \in mine(r) |-> ms[i].points]
      trend(r) ==
        LET n == Cardinality(mine(r)) IN
        IF n >= 2
          THEN <<ms[first(r)].points * (n - 1) - SumOver(pts(r), mine(r) \ {first(r)}),
                 n - 1>>
          ELSE <<0, 1>>
  IN IF ms = <<>> \/ us = None THEN <<>>
     ELSE SortByTrend([k \in DOMAIN teams |->
                         [rosterId |-> teams[k], trend |-> trend(teams[k])]])

InitTrending ==
  /\ NothingElse
  /\ call \in {[fn |-> f, matchups |-> q, users |-> u, weeksToConsider |-> n] :
                 f \in {"getTrendingTeams", "getTrendingTeamsUtils"},
                 q \in {m \in MatchupLists(WinWeeks) : \A i \in DOMAIN m : m[i].roster_id = 1 => m[i].matchup_id = 1},
                 u \in {None, 1}, n \in 0..MaxWeeksToConsider}
  /\ result = NoResult

GetTrendingTeams ==
  /\ call.fn = "getTrendingTeams" /\ ~result.returned
  /\ result' = Returned(getTrendingTeams(call.matchups, call.users, call.weeksToConsider))
  /\ UNCHANGED PureFrame

GetTrendingTeamsUtils ==
  /\ call.fn = "getTrendingTeamsUtils" /\ ~result.returned
  /\ result' = Returned(getTrendingTeamsUtils(call.matchups, call.users,
                                              call.weeksToConsider))
  /\ UNCHANGED PureFrame

NextTrending == GetTrendingTeams \/ GetTrendingTeamsUtils

SpecTrending == InitTrending /\ [][NextTrending]_vars

\* ---- utils/dataUtils.js: getStandings -------------------------------------
\* A roster is [roster_id, owner_id, settings]; settings is NoSettings or
\* [present |-> TRUE, wins, fpts], a field the object lacks being Missing.
\* roster.settings?.f || 0 is f for a number and 0 for a missing field or a
\* missing settings object.
Missing == -1
NoSettings == [present |-> FALSE, wins |-> Missing, fpts |-> Missing]

OrZero(settings, field) ==
  IF ~settings.present THEN 0
  ELSE IF settings[field] = Missing THEN 0 ELSE settings[field]

\* roster => ({rosterId, teamName, wins, pointsFor, ...})
StandingsEntry(roster, us) ==
  [rosterId |-> roster.roster_id,
   teamName |-> IF \E k \in DOMAIN us : us[k].user_id = roster.owner_id
                  THEN [display_name |-> roster.owner_id]
                  ELSE [team |-> roster.roster_id],
   wins |-> OrZero(roster.settings, "wins"),
   pointsFor |-> OrZero(roster.settings, "fpts")]

\* variant: no tiebreaker
CompareStandingsWinsOnly(a, b) == b.wins - a.wins

\* (a, b) => b.wins !== a.wins ? b.wins - a.wins : b.pointsFor - a.pointsFor
CompareStandings(a, b) ==
  IF b.wins # a.wins THEN b.wins - a.wins ELSE b.pointsFor - a.pointsFor

RECURSIVE SortStandings(_)
SortStandings(q) ==
  IF q = <<>> THEN <<>>
  ELSE LET front == SortStandings(SubSeq(q, 1, Len(q) - 1))
           e == q[Len(q)]
           n == Max({0} \cup {j \in DOMAIN front : CompareStandings(front[j], e) <= 0})
       IN SubSeq(front, 1, n) \o <<e>> \o SubSeq(front, n + 1, Len(front))

\* getStandings(rosters, users) (rs, us: its arguments)
getStandings(rs, us) ==
  SortStandings([k \in DOMAIN rs |-> StandingsEntry(rs[k], us)])

RosterSettings ==
  {NoSettings} \cup {[present |-> TRUE, wins |-> w, fpts |-> f] :
                        w \in {Missing} \cup (0..MaxWins),
                        f \in {Missing} \cup (0..MaxPoints)}

RosterLists(most) ==
  UNION {{[k \in 1..n |-> [roster_id |-> k, owner_id |-> 10 + k, settings |-> f[k]]]
            : f \in [1..n -> RosterSettings]} : n \in 0..most}

\* the users of n rosters, the owner of roster 1 not among them
UsersOf(n) == [k \in 1..Max({0, n - 1}) |-> [user_id |-> 11 + k]]

InitStandings ==
  /\ NothingElse
  /\ call \in {[fn |-> "getStandings", rosters |-> q, users |-> UsersOf(Len(q))] :
                 q \in RosterLists(MaxRosters)}
  /\ result = NoResult

GetStandings ==
  /\ call.fn = "getStandings" /\ ~result.returned
  /\ result' = Returned(getStandings(call.rosters, call.users))
  /\ UNCHANGED PureFrame

NextStandings == GetStandings

SpecStandings == InitStandings /\ [][NextStandings]_vars

\* ---- components/PlayerTradeHistoryModal.js: the narrative helpers ----------
\* A text is a sequence of strings, read concatenated.  `${n}` of a number is
\* the sequence of its decimal digits.
DigitChar == <<"0", "1", "2", "3", "4", "5", "6", "7", "8", "9">>

RECURSIVE Str(_)
Str(n) ==
  IF n < 10 THEN <<DigitChar[n + 1]>>
  ELSE Str(n \div 10) \o <<DigitChar[(n % 10) + 1]>>

\* A pick number is a number or a string of digits.  Num(0) stands for a
\* number the object lacks: like 0 it is falsy.
Num(n) == [isString |-> FALSE, n |-> n]
NumString(n) == [isString |-> TRUE, n |-> n]
Truthy(v) == v.isString \/ v.n # 0
Number(v) == v.n

\* array.join(sep)
RECURSIVE Join(_, _)
Join(texts, sep) ==
  IF texts = <<>> THEN <<>>
  ELSE IF Len(texts) = 1 THEN texts[1]
  ELSE texts[1] \o <<sep>> \o Join(Tail(texts), sep)

\* string.trim() of a text whose pieces are names, "" or " "
RECURSIVE Trim(_)
Trim(text) ==
  IF text = <<>> THEN <<>>
  ELSE IF Head(text) \in {"", " "} THEN Trim(Tail(text))
  ELSE IF text[Len(text)] \in {"", " "} THEN Trim(SubSeq(text, 1, Len(text) - 1))
  ELSE text

\* getPlayerNameById(pId); players is allPlayersData, a function on player ids
getPlayerNameById(pId, players) ==
  IF pId \in DOMAIN players
    THEN Trim(<<players[pId].first_name, " ", players[pId].last_name>>)
    ELSE <<"Player ">> \o Str(pId)

\* array.find(...): the index of the first element among S, 0 for undefined
FirstOf(S) == IF S = {} THEN 0 ELSE CHOOSE k \in S : \A j \in S : k <= j

\* getManagerName(rosterId, histRosters, histUsers); histRosters and histUsers
\* are arrays, a roster id the transaction lacks is 0, a display_name the user
\* lacks is "".  parseInt of an integer is that integer.
getManagerName(rosterId, histRosters, histUsers) ==
  IF rosterId = 0 THEN <<"Unknown Manager">>
  ELSE LET i == FirstOf({k \in DOMAIN histRosters : histRosters[k].roster_id = rosterId}) IN
       IF i = 0 THEN <<"Roster ">> \o Str(rosterId)
       ELSE LET j == FirstOf({k \in DOMAIN histUsers :
                                histUsers[k].user_id = histRosters[i].owner_id}) IN
            IF j = 0 \/ histUsers[j].display_name = ""
              THEN <<"Roster ">> \o Str(rosterId)
              ELSE <<histUsers[j].display_name>>

\* the ownership clause of formatDraftPick (written twice in the source)
OwnershipClause(pick, histRosters, histUsers) ==
  LET originalOwnerName == IF pick.original_owner_id # 0
                             THEN getManagerName(pick.original_owner_id, histRosters, histUsers)
                             ELSE <<"Unknown">>
      currentOwnerName == IF pick.roster_id # 0
                            THEN getManagerName(pick.roster_id, histRosters, histUsers)
                            ELSE <<"Unknown">>
  IN IF originalOwnerName # currentOwnerName
       THEN <<" (orig. ">> \o originalOwnerName \o <<" to ">> \o currentOwnerName \o <<")">>
       ELSE <<" (owned by ">> \o currentOwnerName \o <<")">>

\* variant: the pick numbers are compared as they are
SamePickNumberStrict(a, b) == a = b

\* Number(draftedPick.pick_no) === Number(pick.pick)
SamePickNumber(a, b) == Number(a) = Number(b)

\* the record formatDraftPick renders the pick from, 0 when it falls back.
\* allSeasonsDrafts maps a season to its drafts, allSeasonsPicks a draft id to
\* its pick records; a season or draft that is not a key is undefined.
DraftedPlayerPick(pick, allSeasonsDrafts, allSeasonsPicks, thisYear) ==
  IF ~(pick.season # 0 /\ pick.season < thisYear /\ Truthy(pick.pick)) THEN 0
  ELSE IF pick.season \notin DOMAIN allSeasonsDrafts THEN 0
  ELSE IF allSeasonsDrafts[pick.season] = <<>> THEN 0
  ELSE LET targetDraft == allSeasonsDrafts[pick.season][1] IN
       IF targetDraft.draft_id \notin DOMAIN allSeasonsPicks THEN 0
       ELSE LET recs == allSeasonsPicks[targetDraft.draft_id]
                i == FirstOf({k \in DOMAIN recs : SamePickNumber(recs[k].pick_no, pick.pick)})
            IN IF i = 0 THEN 0
               ELSE IF recs[i].player_id = 0 THEN 0 ELSE i

\* formatDraftPick(pick, histRosters, histUsers, allSeasonsDrafts, allSeasonsPicks);
\* players is the allPlayersData and thisYear the new Date().getFullYear() it reads
formatDraftPick(pick, histRosters, histUsers, allSeasonsDrafts, allSeasonsPicks, players, thisYear) ==
  LET round == IF pick.round # 0 THEN Str(pick.round) ELSE <<"?">>
      year == IF pick.season # 0 THEN Str(pick.season) ELSE <<"Unknown Year">>
      i == DraftedPlayerPick(pick, allSeasonsDrafts, allSeasonsPicks, thisYear)
  IN IF i # 0
       THEN LET rec == allSeasonsPicks[allSeasonsDrafts[pick.season][1].draft_id][i]
                actualRound == IF rec.round # 0 THEN Str(rec.round) ELSE round
            IN getPlayerNameById(rec.player_id, players)
                 \o <<" (">> \o year \o <<" Round ">> \o actualRound
                 \o <<" Pick ">> \o Str(rec.draft_slot) \o <<")">>
                 \o OwnershipClause(pick, histRosters, histUsers)
       ELSE year \o <<" Round ">> \o round
              \o (IF Truthy(pick.pick) THEN <<" Pick ">> \o Str(pick.pick.n) ELSE <<>>)
              \o OwnershipClause(pick, histRosters, histUsers)

\* ---- formatDraftPick on its own -------------------------------------------
\* rosters 1 and 2; the owner of roster 1 has a display name, the owner of
\* roster 2 has none, any other roster id is not in the league
HistRosters ==
  <<[roster_id |-> 1, owner_id |-> 11], [roster_id |-> 2, owner_id |-> 12]>>
HistUsers ==
  <<[user_id |-> 11, display_name |-> "ann"], [user_id |-> 12, display_name |-> ""]>>

\* allPlayersData: player 7 with both names, player 2 with a last name only;
\* player 8 is not in it
PlayersData ==
  (7 :> [first_name |-> "Joe", last_name |-> "Doe"])
    @@ (2 :> [first_name |-> "", last_name |-> "Roe"])

LastYear == DefaultSeason - 1

DraftRecord(pickNo, playerId) ==
  [pick_no |-> pickNo, player_id |-> playerId, round |-> 2, draft_slot |-> 3]

NoDrafts == [s \in {} |-> <<>>]
NoPicks == [d \in {} |-> <<>>]

\* what the first loop of fetchTransactions may have gathered: nothing, a
\* season without drafts, a draft whose picks were not fetched, drafts with
\* pick records (pick_no a number or a string, a pick nobody was selected
\* with), and a season whose first draft has no record while its second has
DraftWorlds ==
  {[drafts |-> NoDrafts, picks |-> NoPicks],
   [drafts |-> (LastYear :> <<>>), picks |-> NoPicks],
   [drafts |-> (LastYear :> <<[draft_id |-> 1]>>), picks |-> NoPicks],
   [drafts |-> (LastYear :> <<[draft_id |-> 1]>>) @@ (DefaultSeason :> <<[draft_id |-> 1]>>),
    picks |-> (1 :> <<DraftRecord(Num(1), 7), DraftRecord(Num(2), 0)>>)],
   [drafts |-> (LastYear :> <<[draft_id |-> 1]>>),
    picks |-> (1 :> <<DraftRecord(NumString(2), 8), DraftRecord(NumString(1), 7)>>)],
   [drafts |-> (LastYear :> <<[draft_id |-> 2], [draft_id |-> 1]>>),
    picks |-> (1 :> <<DraftRecord(Num(1), 7)>>) @@ (2 :> <<>>)]}

PickNumbers == {Num(0)} \cup {Num(n) : n \in 1..MaxPickNo}
                 \cup {NumString(n) : n \in 1..MaxPickNo}

PickReferences(most) ==
  {[original_owner_id |-> o, roster_id |-> r, round |-> rd, season |-> s, pick |-> n] :
     o \in 0..most, r \in 0..most, rd \in {0, 1},
     s \in {0, LastYear, DefaultSeason, DefaultSeason + 1}, n \in PickNumbers}

InitPick ==
  /\ NothingElse
  /\ call \in {[fn |-> "formatDraftPick", pick |-> p, allSeasonsDrafts |-> w.drafts,
                allSeasonsPicks |-> w.picks, thisYear |-> DefaultSeason] :
                 p \in PickReferences(MaxRosters), w \in DraftWorlds}
  /\ result = NoResult

FormatDraftPick ==
  /\ call.fn = "formatDraftPick" /\ ~result.returned
  /\ result' = Returned(formatDraftPick(call.pick, HistRosters, HistUsers,
                                        call.allSeasonsDrafts, call.allSeasonsPicks,
                                        PlayersData, call.thisYear))
  /\ UNCHANGED PureFrame

NextPick == FormatDraftPick

SpecPick == InitPick /\ [][NextPick]_vars

\* ---- getTransactionNarrative ------------------------------------------------
\* A transaction is [type, adds, drops, draft_picks, roster_ids, settings,
\* metadata]: adds and drops are functions from player ids to roster ids (a
\* null one is the empty function: the code reads both alike), type "" is a
\* missing type, settings holds waiver_bid and waiver_priority (Missing for
\* undefined), metadata holds pick and round (0 for none).

\* the keys of an object in the order for...in visits them
RECURSIVE Ascending(_)
Ascending(S) ==
  IF S = {} THEN <<>>
  ELSE LET least == CHOOSE k \in S : \A j \in S : k <= j
       IN <<least>> \o Ascending(S \ {least})

\* otherPlayersInvolved: the other players of adds, then those of drops that
\* adds does not hold
OtherPlayersInvolved(t, playerId, players) ==
  LET added == Ascending(DOMAIN t.adds \ {playerId})
      dropped == Ascending((DOMAIN t.drops \ {playerId}) \ DOMAIN t.adds)
  IN [k \in DOMAIN added |-> getPlayerNameById(added[k], players)]
       \o [k \in DOMAIN dropped |-> getPlayerNameById(dropped[k], players)]

\* baseDescription(base), given the two lists it closes over
BaseDescription(base, otherPlayersInvolved, draftPicksInvolved) ==
  LET additionalInfo ==
        (IF otherPlayersInvolved # <<>>
           THEN <<<<"Other players: ">> \o Join(otherPlayersInvolved, ", ")>> ELSE <<>>)
        \o (IF draftPicksInvolved # <<>>
              THEN <<<<"Draft picks: ">> \o Join(draftPicksInvolved, "; ")>> ELSE <<>>)
  IN IF additionalInfo # <<>>
       THEN base \o <<". ">> \o Join(additionalInfo, ". ") \o <<".">>
       ELSE base

\* variant: the players other than the subject are counted once each
OtherPlayersTradedDistinct(t) == Cardinality(DOMAIN t.adds \cup DOMAIN t.drops) - 1

\* Object.keys(adds || {}).length + Object.keys(drops || {}).length - 2
OtherPlayersTraded(t) == Cardinality(DOMAIN t.adds) + Cardinality(DOMAIN t.drops) - 2

\* description += ` (trade included ${n} draft pick(s))`
PickCountNote(t) ==
  IF t.draft_picks # <<>>
    THEN <<" (trade included ">> \o Str(Len(t.draft_picks)) \o <<" draft pick(s))">>
    ELSE <<>>

\* variant: the first roster id of the trade is taken for the other side
OtherRosterIdFirst(t, rosterId) ==
  IF Len(t.roster_ids) > 1 THEN t.roster_ids[1] ELSE 0

\* transaction.roster_ids.find(id => id !== rosterId), 0 when there is none
OtherRosterId(t, rosterId) ==
  IF Len(t.roster_ids) > 1
    THEN LET i == FirstOf({k \in DOMAIN t.roster_ids : t.roster_ids[k] # rosterId})
         IN IF i = 0 THEN 0 ELSE t.roster_ids[i]
    ELSE 0

\* the branches of getTransactionNarrative: [fromTeam, toTeam, description]
\* before baseDescription is applied
NarrativeOf(t, playerId, histRosters, histUsers) ==
  LET addedToRosterId == IF playerId \in DOMAIN t.adds THEN t.adds[playerId] ELSE 0
      droppedFromRosterId == IF playerId \in DOMAIN t.drops THEN t.drops[playerId] ELSE 0
      toName == getManagerName(addedToRosterId, histRosters, histUsers)
      fromName == getManagerName(droppedFromRosterId, histRosters, histUsers)
      Out(f, to, d) == [fromTeam |-> f, toTeam |-> to, description |-> d]
  IN
  IF t.type = "trade" THEN
    IF addedToRosterId # 0 THEN
      IF droppedFromRosterId # 0 THEN
        Out(fromName, toName,
            <<"Traded from ">> \o fromName \o <<" to ">> \o toName
              \o (IF OtherPlayersTraded(t) > 0
                    THEN <<" along with ">> \o Str(OtherPlayersTraded(t))
                           \o <<" other player(s)/pick(s)">>
                    ELSE <<>>)
              \o PickCountNote(t))
      ELSE LET other == OtherRosterId(t, addedToRosterId) IN
        IF other # 0
          THEN LET sourceTeam == getManagerName(other, histRosters, histUsers) IN
               Out(sourceTeam, toName,
                   <<"Acquired by ">> \o toName \o <<" in a trade with ">> \o sourceTeam
                     \o PickCountNote(t))
          ELSE Out(<<"Unknown">>, toName,
                   <<"Acquired by ">> \o toName
                     \o <<" via trade (source not explicitly recorded)">> \o PickCountNote(t))
    ELSE IF droppedFromRosterId # 0 THEN
      LET other == OtherRosterId(t, droppedFromRosterId) IN
        IF other # 0
          THEN LET destinationTeam == getManagerName(other, histRosters, histUsers) IN
               Out(fromName, destinationTeam,
                   <<"Traded from ">> \o fromName \o <<" to ">> \o destinationTeam
                     \o PickCountNote(t))
          ELSE Out(fromName, <<"Unknown">>,
                   <<"Traded away by ">> \o fromName
                     \o <<" (destination not explicitly recorded)">> \o PickCountNote(t))
    ELSE Out(<<>>, <<>>, <<>>)
  ELSE IF t.type = "waiver" THEN
    IF addedToRosterId # 0 THEN
      Out(<<"Waivers">>, toName,
          <<"Claimed off waivers by ">> \o toName
            \o (IF t.settings.waiver_bid # Missing
                  THEN <<" for $">> \o Str(t.settings.waiver_bid) \o <<" FAAB">> ELSE <<>>)
            \o (IF t.settings.waiver_priority # Missing
                  THEN <<" (waiver priority: ">> \o Str(t.settings.waiver_priority) \o <<")">>
                  ELSE <<>>))
    ELSE IF droppedFromRosterId # 0 THEN
      Out(fromName, <<"Waivers">>, <<"Waived by ">> \o fromName)
    ELSE Out(<<>>, <<>>, <<>>)
  ELSE IF t.type = "free_agent" THEN
    IF addedToRosterId # 0 THEN
      Out(<<"Free Agency">>, toName,
          <<"Signed as free agent by ">> \o toName
            \o (IF DOMAIN t.drops # {}
                  THEN <<" (">> \o Str(Cardinality(DOMAIN t.drops)) \o <<" player(s) dropped)">>
                  ELSE <<>>))
    ELSE IF droppedFromRosterId # 0 THEN
      Out(fromName, <<"Free Agency">>, <<"Released to free agency by ">> \o fromName)
    ELSE Out(<<>>, <<>>, <<>>)
  ELSE IF t.type = "commissioner" THEN
    IF addedToRosterId # 0 THEN
      Out(<<"Commissioner">>, toName,
          <<"Added to ">> \o toName \o <<" by commissioner action">>)
    ELSE IF droppedFromRosterId # 0 THEN
      Out(fromName, <<"Commissioner">>,
          <<"Removed from ">> \o fromName \o <<" by commissioner action">>)
    ELSE Out(<<>>, <<>>, <<>>)
  ELSE IF t.type = "draft" THEN
    IF addedToRosterId # 0 THEN
      Out(<<"Draft">>, toName,
          <<"Drafted by ">> \o toName
            \o (IF t.metadata.pick # 0
                  THEN <<" (Round ">>
                         \o (IF t.metadata.round # 0 THEN Str(t.metadata.round) ELSE <<"?">>)
                         \o <<", Pick ">> \o Str(t.metadata.pick) \o <<")">>
                  ELSE <<>>))
    ELSE Out(<<>>, <<>>, <<>>)
  ELSE Out(<<>>, <<>>,
           <<"Involved in a ">> \o <<IF t.type # "" THEN t.type ELSE "unknown">>
             \o <<" transaction">>)

\* getTransactionNarrative(transaction, playerId, histRosters, histUsers,
\* allSeasonsDrafts, allSeasonsPicks)
getTransactionNarrative(t, playerId, histRosters, histUsers, allSeasonsDrafts, allSeasonsPicks, players, thisYear) ==
  LET draftPicksInvolved ==
        [k \in DOMAIN t.draft_picks |->
           formatDraftPick(t.draft_picks[k], histRosters, histUsers,
                           allSeasonsDrafts, allSeasonsPicks, players, thisYear)]
      n == NarrativeOf(t, playerId, histRosters, histUsers)
  IN [n EXCEPT !.description =
         BaseDescription(@, OtherPlayersInvolved(t, playerId, players), draftPicksInvolved)]

\* the adds or drops of a transaction among TradePlayers players
PlayerMaps(n) ==
  UNION {[S -> 1..MaxRosters] : S \in SUBSET (1..n)}

NoTxSettings == [waiver_bid |-> Missing, waiver_priority |-> Missing]
NoMetadata == [pick |-> 0, round |-> 0]

\* a pick of next year's draft, traded from roster 1 to roster 2
TradedPick ==
  [original_owner_id |-> 1, roster_id |-> 2, round |-> 1,
   season |-> DefaultSeason + 1, pick |-> Num(0)]

Trades(n) ==
  {[type |-> "trade", adds |-> a, drops |-> d, draft_picks |-> dp, roster_ids |-> ids,
    settings |-> NoTxSettings, metadata |-> NoMetadata] :
     a \in PlayerMaps(n), d \in PlayerMaps(n), dp \in {<<>>, <<TradedPick>>},
     ids \in {<<>>, <<1>>, <<1, 2>>, <<2, 1>>}}

OtherTransactions(n) ==
  {[type |-> ty.type, adds |-> a, drops |-> d, draft_picks |-> <<>>, roster_ids |-> <<>>,
    settings |-> ty.settings, metadata |-> ty.metadata] :
     a \in PlayerMaps(n), d \in {[q \in {} |-> 0], [q \in {1} |-> 1]},
     ty \in {[type |-> "waiver", settings |-> NoTxSettings, metadata |-> NoMetadata],
             [type |-> "waiver", settings |-> [waiver_bid |-> 0, waiver_priority |-> 1],
              metadata |-> NoMetadata],
             [type |-> "free_agent", settings |-> NoTxSettings, metadata |-> NoMetadata],
             [type |-> "commissioner", settings |-> NoTxSettings, metadata |-> NoMetadata],
             [type |-> "draft", settings |-> NoTxSettings, metadata |-> NoMetadata],
             [type |-> "draft", settings |-> NoTxSettings,
              metadata |-> [pick |-> 1, round |-> 0]],
             [type |-> "", settings |-> NoTxSettings, metadata |-> NoMetadata]}}

InitNarrative ==
  /\ NothingElse
  /\ call \in {[fn |-> "getTransactionNarrative", transaction |-> t, playerId |-> 1] :
                 t \in Trades(TradePlayers) \cup OtherTransactions(TradePlayers)}
  /\ result = NoResult

GetTransactionNarrative ==
  /\ call.fn = "getTransactionNarrative" /\ ~result.returned
  /\ result' = Returned(getTransactionNarrative(call.transaction, call.playerId,
                                                HistRosters, HistUsers, NoDrafts, NoPicks,
                                                PlayersData, DefaultSeason))
  /\ UNCHANGED PureFrame

NextNarrative == GetTransactionNarrative

SpecNarrative == InitNarrative /\ [][NextNarrative]_vars

\* ======================= properties ======================================

Last(q) == q[Len(q)]

\* ---- C1 -----------------------------------------------------------------
\* the league data on display belongs to league lid
Displays(lid) ==
  /\ league = lid /\ users = lid /\ rosters = lid
  /\ \A j \in DOMAIN matchups : matchups[j].lid = lid

\* C1: once every load in flight has finished, the league, users, rosters
\* and matchups on display are those of the league requested last, whatever
\* the order in which the requests of overlapping loads resolve.
C1_LastRequestWins == Quiet => Displays(leagueId)

\* ---- C4 -----------------------------------------------------------------
\* C4: after a load that obtained league, users and rosters, the season map
\* has a key for the current NFL season and the two years before it, each
\* of them that the traversal did not discover maps to the load's league id,
\* and the map has at least three seasons.
C4_ThreeSeasonsBackfilled ==
  last.pc = "ok" =>
    /\ DefaultSeasonYears \subseteq DOMAIN seasonLeagueIds
    /\ \A y \in DefaultSeasonYears :
         y \notin DOMAIN last.smap => seasonLeagueIds[y] = last.lid
    /\ \A y \in DOMAIN last.smap : seasonLeagueIds[y] = last.smap[y]
    /\ Cardinality(DOMAIN seasonLeagueIds) >= 3

\* a finished load whose history fetches were all rejected
C4_Witness ==
  /\ last.pc = "ok"
  /\ last.w.log = <<"fail", "fail">>
  /\ Cardinality(DOMAIN seasonLeagueIds) = 3

\* ---- C5 -----------------------------------------------------------------
\* C5: for a starting league without a previous-league reference the map's
\* keys are exactly the league's season and the three fallback years, and
\* every key maps to the starting league id.
C5_NoPreviousLeague ==
  (last.pc = "ok" /\ PrevOf(last.lid) = None) =>
    /\ DOMAIN seasonLeagueIds = {CurrentLeagueSeason(last)} \cup DefaultSeasonYears
    /\ \A y \in DOMAIN seasonLeagueIds : seasonLeagueIds[y] = last.lid

\* a league without predecessor whose season lies outside the fallback years
C5_Witness ==
  /\ last.pc = "ok" /\ PrevOf(last.lid) = None
  /\ last.w.log = <<"ok">>
  /\ SeasonOf(last.lid) \notin DefaultSeasonYears
  /\ Cardinality(DOMAIN seasonLeagueIds) = 4

\* ---- C6 -----------------------------------------------------------------
NotPast(l) == ~(l.season < NflSeason)

\* C6: a load for a season that is not before the current NFL season reads
\* nothing from the cache and leaves the store as it was at every one of
\* its steps, and league, users and rosters each come from a live fetch.
C6_NoCacheForCurrentOrFuture ==
  [][\A i \in Slots :
       LET before == loads[i]
           after  == IF loads'[i].pc = "idle" THEN last' ELSE loads'[i]
           steps  == before # loads'[i]
           runs   == IF before.pc = "idle" THEN after ELSE before
       IN (steps /\ NotPast(runs)) =>
            /\ cache' = cache
            /\ ~after.reads /\ after.writes = {} /\ after.hit = {}
            /\ after.pc = "ok" => {"league", "users", "rosters"} \subseteq after.live
    ]_vars

\* a finished load of the current season, with a non-empty store beside it
C6_Witness ==
  /\ last.pc = "ok" /\ last.season = NflSeason
  /\ last.live = {"league", "users", "rosters"}
  /\ cache # {}

C8_FailedWeeksAreTolerated ==
  /\ last.mfail # {} => last.pc = "ok"
  /\ \A i \in InFlight : loads[i].mfail # {} => loads[i].pc \in {"week", "walk", "map"}
  /\ (last.pc = "ok" /\ last.mreq # {}) =>
       /\ last.mreq = 1..WeeksToFetch
       /\ \A j \in DOMAIN last.am : last.am[j].week \notin last.mfail
  /\ (last.pc = "ok" /\ InFlight = {}) =>
       /\ error = NoError
       /\ league = last.lid /\ users = last.lid /\ rosters = last.lid
       /\ matchups = last.am

C8_Witness ==
  /\ last.pc = "ok" /\ InFlight = {}
  /\ Cardinality(last.mfail) = 2
  /\ last.am = <<>> /\ matchups = <<>>
  /\ league = last.lid

\* ---- C9 -----------------------------------------------------------------
\* C9: when the fetch of the league, its users or its rosters is rejected,
\* the load ends with the one error naming its league id, no league, no
\* users, rosters or matchups, and loading false.
C9_CoreFailureClearsEverything ==
  (last.pc = "failed" /\ InFlight = {}) =>
    /\ error = LeagueError(last.lid)
    /\ league = None /\ users = None /\ rosters = None /\ matchups = <<>>
    /\ loading = FALSE

\* the rosters fetch rejected after league and users had been displayed
C9_Witness ==
  /\ last.pc = "failed" /\ InFlight = {}
  /\ last.live = {"league", "users"}
  /\ error = LeagueError(last.lid)

\* ---- C10 ----------------------------------------------------------------
\* the events of q carry pairwise different transaction ids, each the id of
\* a transaction that reached the narration loop, under the first season
\* (in the loop's order) in which it did
NarratedOnce(q) ==
  /\ \A i, j \in DOMAIN q : i # j => q[i].id # q[j].id
  /\ \A i \in DOMAIN q :
       /\ <<q[i].season, q[i].id>> \in modal.processed
       /\ \A p \in modal.processed : p[2] = q[i].id => q[i].season <= p[1]

\* C10: the sequence fetchTransactions builds, and the one it hands to
\* setTransactions, never holds two events with the same transaction id; a
\* transaction returned under several seasons is narrated once, under the
\* first season in which it was processed, and none that was processed is
\* left out.
C10_OneEventPerTransaction ==
  /\ NarratedOnce(modal.allTransactions)
  /\ NarratedOnce(modal.transactions)
  /\ \A p \in modal.processed :
       \E i \in DOMAIN modal.allTransactions : modal.allTransactions[i].id = p[2]
  /\ modal.pc = "done" /\ modal.player # None =>
       /\ Len(modal.transactions) = Len(modal.allTransactions)
       /\ Range(modal.transactions) = Range(modal.allTransactions)

\* a finished fetch in which one transaction came back under two seasons of
\* the same league, the earlier of them after a season that was given up
C10_Witness ==
  /\ modal.pc = "done"
  /\ modal.skipped # {}
  /\ \E p, r \in modal.processed :
       /\ p[2] = r[2] /\ p[1] < r[1]
       /\ \E s \in modal.skipped : s < p[1] /\ modal.seasonLeagueIds[s] = modal.seasonLeagueIds[p[1]]
       /\ \E i \in DOMAIN modal.transactions :
            modal.transactions[i].id = p[2] /\ modal.transactions[i].season = p[1]

\* ---- C11 ----------------------------------------------------------------
\* C11: the sorted sequence is ascending by timestamp, and every event
\* without a timestamp comes before every event that has one.
C11_SortedUndefinedFirst ==
  (call.fn = "sort" /\ result.returned) =>
    \A i, j \in DOMAIN result.value :
      i < j =>
        \/ result.value[i].timestamp = None
        \/ /\ result.value[j].timestamp # None
           /\ result.value[i].timestamp <= result.value[j].timestamp

\* ---- C12 ----------------------------------------------------------------
\* the ids of the player's transactions that league lid holds
PlayerTransactionIds(lid) ==
  {LeagueTransactions(lid)[j].transaction_id :
     j \in {i \in DOMAIN LeagueTransactions(lid) : LeagueTransactions(lid)[i].involves}}

\* C12: whatever fetches were rejected, the operation reaches its end with
\* every season of the map either given up (its rosters or users fetch was
\* rejected) or narrated, never both; every transaction that reached the
\* narration loop has its event, and so has every transaction of the player
\* in a season whose fetches all succeeded.
C12_FetchErrorsAreContained ==
  (modal.pc = "done" /\ modal.player # None) =>
    /\ modal.skipped \cup modal.narrated = DOMAIN modal.seasonLeagueIds
    /\ modal.skipped \cap modal.narrated = {}
    /\ \A p \in modal.processed :
         \E i \in DOMAIN modal.transactions : modal.transactions[i].id = p[2]
    /\ \A s \in modal.complete :
         /\ s \in modal.narrated
         /\ \A id \in PlayerTransactionIds(modal.seasonLeagueIds[s]) :
              \E i \in DOMAIN modal.transactions : modal.transactions[i].id = id

\* a finished fetch that gave up one season and, after it, fetched another
\* season completely, every allowed rejection having happened
C12_Witness ==
  /\ modal.pc = "done" /\ events = 0
  /\ \E s \in modal.skipped, r \in modal.complete : s < r
  /\ \E s \in modal.narrated \ modal.complete : TRUE
  /\ modal.transactions # <<>>

\* ---- C13 ----------------------------------------------------------------
\* the games of roster r: the (week, pair id) groups holding r and another
\* roster; those r won: its points strictly above the other's
GamesOf(q, r) ==
  {g \in {<<q[i].week, q[i].matchup_id>> : i \in DOMAIN q} :
     /\ \E i \in DOMAIN q : <<q[i].week, q[i].matchup_id>> = g /\ q[i].roster_id = r
     /\ \E i \in DOMAIN q : <<q[i].week, q[i].matchup_id>> = g /\ q[i].roster_id # r}

GamesWonBy(q, r) ==
  {g \in GamesOf(q, r) :
     \E i, j \in DOMAIN q :
       /\ <<q[i].week, q[i].matchup_id>> = g /\ q[i].roster_id = r
       /\ <<q[j].week, q[j].matchup_id>> = g /\ q[j].roster_id # r
       /\ q[i].points > q[j].points}

\* C13: whichever calculateWinRate is called, it counts one game per (week,
\* pair id) group that holds the target and another roster, one win per
\* game in which the target's points are strictly higher, and returns
\* 100 * wins / games, or 0 without games, a value in [0, 100].
C13_WinRateByWeekAndPair ==
  (call.fn \in {"calculateWinRate", "calculateWinRateUtils"} /\ result.returned) =>
    /\ result.value.totalGames = Cardinality(GamesOf(call.matchups, call.rosterId))
    /\ result.value.wins = Cardinality(GamesWonBy(call.matchups, call.rosterId))
    /\ result.value.rate = IF result.value.totalGames > 0
                             THEN <<100 * result.value.wins, result.value.totalGames>>
                             ELSE <<0, 1>>
    /\ result.value.wins <= result.value.totalGames

\* ---- C14 ----------------------------------------------------------------
\* how many distinct weeks a call considers
WeeksConsidered ==
  LET present == Cardinality({call.matchups[i].week : i \in DOMAIN call.matchups})
  IN IF call.weeksToConsider < present THEN call.weeksToConsider ELSE present

\* C14: whichever getTrendingTeams is called, it returns the empty sequence
\* when fewer than two distinct weeks are considered, and entries only when
\* at least two are.
C14_TrendNeedsTwoWeeks ==
  (call.fn \in {"getTrendingTeams", "getTrendingTeamsUtils"} /\ result.returned) =>
    /\ WeeksConsidered < 2 => result.value = <<>>
    /\ result.value # <<>> => WeeksConsidered >= 2

\* ---- C15 ----------------------------------------------------------------
\* C15: getStandings returns one entry per roster, each with the roster's
\* wins and fpts (0 when missing), in descending order of wins, and among
\* equal wins in descending order of pointsFor.
C15_StandingsOrder ==
  (call.fn = "getStandings" /\ result.returned) =>
    LET v == result.value
        rs == call.rosters
    IN /\ Len(v) = Len(rs)
       /\ \A k \in DOMAIN rs :
            \E i \in DOMAIN v :
              /\ v[i].rosterId = rs[k].roster_id
              /\ \A j \in DOMAIN v : v[j].rosterId = rs[k].roster_id => j = i
              /\ v[i].wins = OrZero(rs[k].settings, "wins")
              /\ v[i].pointsFor = OrZero(rs[k].settings, "fpts")
       /\ \A i, j \in DOMAIN v :
            i < j => \/ v[i].wins > v[j].wins
                     \/ v[i].wins = v[j].wins /\ v[i].pointsFor >= v[j].pointsFor

\* two rosters level on wins, the first without fpts: the second, with more
\* points, is ranked first and the first is listed with 0 points
C15_Witness ==
  /\ call.fn = "getStandings" /\ result.returned
  /\ Len(call.rosters) = 2
  /\ call.rosters[1].settings.present /\ call.rosters[2].settings.present
  /\ call.rosters[1].settings.wins = 1 /\ call.rosters[2].settings.wins = 1
  /\ call.rosters[1].settings.fpts = Missing
  /\ call.rosters[2].settings.fpts = MaxPoints
  /\ result.value[1].rosterId = 2 /\ result.value[2].rosterId = 1
  /\ result.value[2].pointsFor = 0

\* ---- C17 ----------------------------------------------------------------
\* the pick record a reference is rendered from under the rule of C17: a
\* record of the season's first draft with the same number and a player
DraftedFor(c) ==
  IF /\ c.pick.season # 0 /\ c.pick.season < c.thisYear /\ Truthy(c.pick.pick)
     /\ c.pick.season \in DOMAIN c.allSeasonsDrafts
     /\ c.allSeasonsDrafts[c.pick.season] # <<>>
     /\ c.allSeasonsDrafts[c.pick.season][1].draft_id \in DOMAIN c.allSeasonsPicks
  THEN LET recs == c.allSeasonsPicks[c.allSeasonsDrafts[c.pick.season][1].draft_id]
       IN {recs[k] : k \in {j \in DOMAIN recs : /\ recs[j].pick_no.n = c.pick.pick.n
                                                /\ recs[j].player_id # 0}}
  ELSE {}

OwnerName(id) == IF id = 0 THEN <<"Unknown">> ELSE getManagerName(id, HistRosters, HistUsers)

ExpectedClause(pick) ==
  IF OwnerName(pick.original_owner_id) # OwnerName(pick.roster_id)
    THEN <<" (orig. ">> \o OwnerName(pick.original_owner_id) \o <<" to ">>
           \o OwnerName(pick.roster_id) \o <<")">>
    ELSE <<" (owned by ">> \o OwnerName(pick.roster_id) \o <<")">>

\* C17: a reference to a past season with a pick number, whose season's first
\* draft has a record of that number (compared as numbers) with a player, is
\* rendered as "<player> (<year> Round <drafted round> Pick <draft slot>)";
\* every other reference as "<year> Round <reference round>[ Pick <n>]"; both
\* followed by "(orig. A to B)" when the owners' names differ and by
\* "(owned by B)" when they do not.
C17_PickRendering ==
  (call.fn = "formatDraftPick" /\ result.returned) =>
    LET pick == call.pick
        year == IF pick.season # 0 THEN Str(pick.season) ELSE <<"Unknown Year">>
        round == IF pick.round # 0 THEN Str(pick.round) ELSE <<"?">>
    IN IF DraftedFor(call) # {}
         THEN \E rec \in DraftedFor(call) :
                result.value =
                  getPlayerNameById(rec.player_id, PlayersData)
                    \o <<" (">> \o year \o <<" Round ">> \o Str(rec.round)
                    \o <<" Pick ">> \o Str(rec.draft_slot) \o <<")">>
                    \o ExpectedClause(pick)
         ELSE result.value =
                year \o <<" Round ">> \o round
                  \o (IF Truthy(pick.pick) THEN <<" Pick ">> \o Str(pick.pick.n) ELSE <<>>)
                  \o ExpectedClause(pick)

\* a reference with the pick number "1" as a string and round 1, the record
\* with the number 1 and round 2: rendered from the record, owners differing
C17_Witness ==
  /\ call.fn = "formatDraftPick" /\ result.returned
  /\ call.pick = [original_owner_id |-> 1, roster_id |-> 2, round |-> 1,
                  season |-> LastYear, pick |-> NumString(1)]
  /\ DraftRecord(Num(1), 7) \in DraftedFor(call)
  /\ result.value = <<"Joe", " ", "Doe", " (", "2", "0", "2", "4", " Round ", "2",
                      " Pick ", "3", ")", " (orig. ", "ann", " to ", "Roster ", "2", ")">>

\* ---- C16 ----------------------------------------------------------------
StartsWith(text, prefix) ==
  Len(text) >= Len(prefix) /\ SubSeq(text, 1, Len(prefix)) = prefix

\* C16: for a trade that both adds the player to a roster and drops the
\* player from a roster, the description begins "Traded from X to Y", X the
\* manager of the roster dropped from and Y of the roster added to, and is
\* followed by " along with N other player(s)/pick(s)" exactly when
\* N = number of adds + number of drops - 2 is greater than 0.
C16_TradeNarrative ==
  (/\ call.fn = "getTransactionNarrative" /\ result.returned
   /\ call.transaction.type = "trade"
   /\ call.playerId \in DOMAIN call.transaction.adds
   /\ call.playerId \in DOMAIN call.transaction.drops) =>
    LET t == call.transaction
        N == Cardinality(DOMAIN t.adds) + Cardinality(DOMAIN t.drops) - 2
        X == OwnerName(t.drops[call.playerId])
        Y == OwnerName(t.adds[call.playerId])
        head == <<"Traded from ">> \o X \o <<" to ">> \o Y
        note == <<" along with ">> \o Str(N) \o <<" other player(s)/pick(s)">>
        d == result.value.description
    IN /\ result.value.fromTeam = X /\ result.value.toTeam = Y
       /\ StartsWith(d, head)
       /\ N > 0 => StartsWith(d, head \o note)
       /\ N <= 0 => \A k \in DOMAIN d : d[k] # " along with "

\* both players change sides: N = 2
C16_Witness ==
  /\ call.fn = "getTransactionNarrative" /\ result.returned
  /\ call.transaction.type = "trade"
  /\ call.transaction.adds = (1 :> 2) @@ (2 :> 1)
  /\ call.transaction.drops = (1 :> 1) @@ (2 :> 2)
  /\ call.transaction.draft_picks = <<>>
  /\ result.value.description =
       <<"Traded from ", "ann", " to ", "Roster ", "2", " along with ", "2",
         " other player(s)/pick(s)", ". ", "Other players: ", "Roe", ".">>

\* ---- C18 ----------------------------------------------------------------
CoreKinds == {"league", "users", "rosters"}

\* a load began in slot i in this step (in a free slot, or in the slot of the
\* load that ended in this step)
LoadBegins(i) ==
  /\ loads'[i].pc # "idle" /\ loads'[i] # loads[i]
  /\ loads[i].pc = "idle" \/ last' # last

\* a load ended without error in this step
LoadCompletes == last' # last /\ last'.pc = "ok"

\* what a past-season load takes from the store: exactly the kinds that have
\* an unexpired entry when it begins, with the entry's data as it is, and no
\* request is made for such a kind
TakenFromCache ==
  /\ \A i \in Slots :
       (LoadBegins(i) /\ shouldUseCache(loads'[i].season, NflSeason)) =>
         LET l == loads'[i] IN
         /\ l.hit = {k \in CoreKinds \cup {"matchups"} : CacheHas(cache, k, l.lid, l.season)}
         /\ \A k \in l.hit \cap CoreKinds : l.data[k] = CacheData(cache, k, l.lid, l.season)
         /\ "matchups" \in l.hit => l.am = CacheData(cache, "matchups", l.lid, l.season)
  /\ \A i \in Slots :
       shouldUseCache(loads'[i].season, NflSeason) =>
         /\ loads'[i].live \cap loads'[i].hit = {}
         /\ "matchups" \in loads'[i].hit => loads'[i].mreq = {}
  /\ (LoadCompletes /\ shouldUseCache(last'.season, NflSeason)) =>
       /\ last'.live \cap last'.hit = {}
       /\ "matchups" \in last'.hit => last'.mreq = {} /\ last'.am # <<>>

\* a completed past-season load fetched the core kinds it missed and the
\* store holds what it fetched
CoreWrittenBack ==
  (LoadCompletes /\ shouldUseCache(last'.season, NflSeason)) =>
    \A k \in CoreKinds \ last'.hit :
      /\ k \in last'.live /\ last'.data[k] = last'.lid
      /\ CacheEntry(k, last'.lid, last'.season, last'.data[k]) \in cache'

\* C18: a past-season load takes each of league, users, rosters and matchups
\* from the store when it holds an entry, without a request and without
\* looking into the entry; a kind it misses is fetched, and when the load
\* completes the store holds the fetched value under (kind, leagueId, season)
\* -- for the matchups, when at least one week came back with records.
C18_PastSeasonReadThrough ==
  [][/\ TakenFromCache
     /\ CoreWrittenBack
     /\ (LoadCompletes /\ shouldUseCache(last'.season, NflSeason)
           /\ "matchups" \notin last'.hit) =>
          /\ last'.mreq = 1..maxWeeksToFetch
          /\ last'.am # <<>> =>
               CacheEntry("matchups", last'.lid, last'.season, last'.am) \in cache'
    ]_vars

\* C18 as stated: the matchups fetched after a miss are in the store when the
\* load completes, whatever was fetched.
C18_AsStated ==
  [][/\ TakenFromCache
     /\ CoreWrittenBack
     /\ (LoadCompletes /\ shouldUseCache(last'.season, NflSeason)
           /\ "matchups" \notin last'.hit) =>
          /\ last'.mreq = 1..maxWeeksToFetch
          /\ CacheEntry("matchups", last'.lid, last'.season, last'.am) \in cache'
    ]_vars

\* a completed past-season load that found nothing in the store, fetched
\* everything and left all four kinds in the store
C18_Witness ==
  /\ last.pc = "ok" /\ shouldUseCache(last.season, NflSeason)
  /\ last.hit = {} /\ last.live = CoreKinds /\ last.mreq = 1..maxWeeksToFetch
  /\ \A k \in CoreKinds :
       CacheEntry(k, last.lid, last.season, last.lid) \in cache
  /\ last.am # <<>>
  /\ CacheEntry("matchups", last.lid, last.season, last.am) \in cache

\* ---- C20 ----------------------------------------------------------------
\* the seasonsMap of invocation l holds everything m holds
Extends(smap, m) == \A y \in DOMAIN m : y \in DOMAIN smap /\ smap[y] = m[y]

\* seasonsMap is only ever added to while an invocation runs, and what it
\* holds at the end is in seasonLeagueIds
KeysAreKept ==
  \A i \in Slots :
    loads[i].pc # "idle" =>
      IF last' # last
        THEN /\ Extends(last'.smap, loads[i].smap)
             /\ last'.pc = "ok" => Extends(seasonLeagueIds', last'.smap)
        ELSE Extends(loads'[i].smap, loads[i].smap)

\* the positions of historicalIds that carry the season tag y, those of the
\* starting league left out when its season is y
TaggedAt(l, y, among) ==
  {j \in among : SeasonOf(l.w.ids[j]) = y /\ y # CurrentLeagueSeason(l)}

\* seasonsMap of a finished invocation l when, of the positions among, the
\* nearest to the start is the one mapped
NearestMapped(l, among) ==
  /\ CurrentLeagueSeason(l) \in DOMAIN l.smap
  /\ l.smap[CurrentLeagueSeason(l)] = l.lid
  /\ \A j \in among :
       LET y == SeasonOf(l.w.ids[j]) IN
       (y # None /\ y # CurrentLeagueSeason(l)) =>
         /\ y \in DOMAIN l.smap
         /\ l.smap[y] = l.w.ids[CHOOSE k \in TaggedAt(l, y, among) :
                                   \A n \in TaggedAt(l, y, among) : k <= n]

\* C20: a season key of seasonsMap, once set, keeps its league id; the season
\* of the starting league maps to the starting league; of the leagues of the
\* chain with the same season tag whose getLeague resolved in the scan, the
\* one nearest to the start is mapped.
C20_FirstWriterWins ==
  [][/\ KeysAreKept
     /\ (last' # last /\ last'.pc = "ok") => NearestMapped(last', last'.scanned)
    ]_vars

\* seasonsMap of a finished invocation l when every mapped season tag that
\* two leagues of the chain carry is mapped to the nearer of them
NearerOfTwo(l) ==
  /\ CurrentLeagueSeason(l) \in DOMAIN l.smap
  /\ l.smap[CurrentLeagueSeason(l)] = l.lid
  /\ \A y \in DOMAIN l.smap :
       LET at == TaggedAt(l, y, 2..Len(l.w.ids)) IN
       Cardinality({l.w.ids[j] : j \in at}) >= 2 =>
         l.smap[y] = l.w.ids[CHOOSE k \in at : \A n \in at : k <= n]

\* C20 as stated: of two leagues of the chain with the same season tag the
\* nearer to the start is the one mapped.
C20_AsStated ==
  [][/\ KeysAreKept
     /\ (last' # last /\ last'.pc = "ok") => NearerOfTwo(last')
    ]_vars

\* leagues 2 and 3 carry the same tag, both resolved in the scan, league 2
\* is mapped
C20_Witness ==
  /\ last.pc = "ok" /\ last.lid = 1
  /\ last.w.ids = <<1, 2, 3>> /\ last.scanned = {2, 3}
  /\ SeasonOf(2) = SeasonOf(3)
  /\ last.smap[SeasonOf(2)] = 2
  /\ seasonLeagueIds[SeasonOf(2)] = 2

\* ---- C19 ----------------------------------------------------------------
HistoryKinds == {"rosters", "users", "transactions"}

\* C19: fetchTransactions reads rosters, users and transactions from the store
\* and writes them to it only for seasons before the current NFL season; for
\* any other season of the map nothing is taken from the store and nothing
\* is left in it.
C19_OnlyPastSeasonsCached ==
  /\ \A e \in cache :
       e.kind \in HistoryKinds => shouldUseCache(e.season, NflSeason)
  /\ \A p \in modal.viaCache \cup modal.stored :
       p[1] \in HistoryKinds => shouldUseCache(p[2], NflSeason)

\* ---- C21 ----------------------------------------------------------------
\* the loads that are waiting for the answer to a getMatchups request
AwaitingMatchups == {i \in Slots : loads[i].pc = "week"}

\* C21: matchup weeks are requested one at a time, so at any time at most
\* one getMatchups request is outstanding.
C21_OneMatchupRequestAtATime == Cardinality(AwaitingMatchups) <= 1

\* ---- C22 ----------------------------------------------------------------
\* isCurrentNflSeason: the season the load asks matchups for is the current
\* NFL season (the selected season; in App.js the loaded league's own)
IsCurrentNflSeason(l) ==
  IF impl = "context" THEN l.season = NflSeason
                      ELSE CurrentLeagueSeason(l) = NflSeason

\* the season type is "regular" or "post"
InSeason == NflSeasonType \in {"regular", "post"}

PastSeasons == {y \in DOMAIN modal.seasonLeagueIds : y < modal.currentYear}

\* the first loop is waiting for drafts or picks
Preloading == modal.pc \in {"drafts", "picks"}

\* the second loop has begun: a season is being processed or was processed
SeasonLoopBegun ==
  \/ modal.k >= 1
  \/ modal.pc \in {"rosters", "users", "transactions"}
  \/ modal.narrated # {} \/ modal.skipped # {} \/ modal.processed # {}
  \/ modal.allTransactions # <<>> \/ modal.seenTransactionIds # {}
  \/ modal.stored # {} \/ modal.viaCache # {}

\* the drafts of every past season were loaded or failed, and so were the
\* picks of every draft that was loaded
PreloadOver ==
  /\ modal.allSeasonsDrafts = PastSeasons
  /\ \A y \in PastSeasons :
       CacheHas(cache, "drafts", modal.seasonLeagueIds[y], y) =>
         Range(CacheData(cache, "drafts", modal.seasonLeagueIds[y], y))
           \subseteq modal.allSeasonsPicks

\* C23: while buildPlayerHistory preloads drafts and picks no roster, user or
\* transaction load has started and nothing is narrated; the season loop
\* begins only when the drafts and picks of every season before the current
\* year are loaded or have failed; drafts are loaded for those seasons only.
C23_DraftsBeforeSeasons ==
  modal.player # None =>
    /\ Preloading => ~SeasonLoopBegun
    /\ SeasonLoopBegun => PreloadOver
    /\ modal.allSeasonsDrafts \subseteq PastSeasons
    /\ \A e \in cache : e.kind = "drafts" => e.season \in PastSeasons

C23_Witness ==
  /\ modal.pc = "rosters" /\ modal.k = 1
  /\ PastSeasons # {} /\ PastSeasons # DOMAIN modal.seasonLeagueIds
  /\ PreloadOver /\ modal.allSeasonsPicks # {}
  /\ \E y \in PastSeasons : ~CacheHas(cache, "drafts", modal.seasonLeagueIds[y], y)

\* ---- C24 ----------------------------------------------------------------
\* getTransactionNarrative returned for a trade that adds the player and
\* records no drop of the player
AddedOnlyTrade ==
  /\ call.fn = "getTransactionNarrative" /\ result.returned
  /\ call.transaction.type = "trade"
  /\ call.playerId \in DOMAIN call.transaction.adds
  /\ call.playerId \notin DOMAIN call.transaction.drops

\* the positions of roster_ids that hold a roster other than the destination
OtherSides ==
  {k \in DOMAIN call.transaction.roster_ids :
     call.transaction.roster_ids[k] # call.transaction.adds[call.playerId]}

\* "Acquired by Y in a trade with <other>", other the owner of one of them
NamesOtherSide ==
  LET Y == OwnerName(call.transaction.adds[call.playerId]) IN
  \E k \in OtherSides :
    LET other == OwnerName(call.transaction.roster_ids[k]) IN
    /\ StartsWith(result.value.description,
                  <<"Acquired by ">> \o Y \o <<" in a trade with ">> \o other)
    /\ result.value.fromTeam = other /\ result.value.toTeam = Y

\* "Acquired by Y via trade (source not explicitly recorded)"
SourceNotRecorded ==
  LET Y == OwnerName(call.transaction.adds[call.playerId]) IN
  /\ StartsWith(result.value.description,
                <<"Acquired by ">> \o Y
                  \o <<" via trade (source not explicitly recorded)">>)
  /\ result.value.fromTeam = <<"Unknown">> /\ result.value.toTeam = Y

\* C24: for a trade that adds the player without a recorded drop, the
\* narrative is "Acquired by Y in a trade with <other>" when roster_ids has
\* more than one entry and holds a roster other than the destination, whose
\* owner is named; otherwise it is "Acquired by Y via trade (source not
\* explicitly recorded)".
C24_AcquiredInTrade ==
  AddedOnlyTrade =>
    IF Len(call.transaction.roster_ids) > 1 /\ OtherSides # {}
      THEN NamesOtherSide
      ELSE SourceNotRecorded

\* C24 as stated: the other side is named whenever roster_ids holds a roster
\* other than the destination.
C24_AsStated ==
  AddedOnlyTrade =>
    IF OtherSides # {} THEN NamesOtherSide ELSE SourceNotRecorded

\* roster 2 acquires the player from roster 1, whose owner is named
C24_Witness ==
  /\ AddedOnlyTrade
  /\ call.transaction.adds = (1 :> 2)
  /\ call.transaction.roster_ids = <<2, 1>>
  /\ call.transaction.draft_picks = <<>>
  /\ result.value.description =
       <<"Acquired by ", "Roster ", "2", " in a trade with ", "ann">>

\* ---- C30 ----------------------------------------------------------------
\* the transaction passes the filter of fetchTransactions: the player is in
\* its adds or in its drops
PassesPlayerFilter(t, playerId) ==
  playerId \in DOMAIN t.adds \/ playerId \in DOMAIN t.drops

\* C30: for every transaction that passes the player filter, whatever its
\* type and whichever of add and drop is recorded, getTransactionNarrative
\* returns a description that is not empty.
C30_NarrativeNeverEmpty ==
  (/\ call.fn = "getTransactionNarrative" /\ result.returned
   /\ PassesPlayerFilter(call.transaction, call.playerId)) =>
    result.value.description # <<>>

\* ---- C25 ----------------------------------------------------------------
\* C25: getNflState and getAllPlayers are each called once in a run of the
\* provider, whatever league changes, season changes and loads happen.
C25_GlobalDataFetchedOnce == calls.nfl = 1 /\ calls.players = 1

\* ---- C26 ----------------------------------------------------------------
\* C26: whenever no load is in flight and the last load succeeded, the
\* loaded league is the one the season map assigns to the selected season.
C26_LeagueOfSelectedSeason ==
  (Quiet /\ last.pc = "ok") =>
    /\ selectedSeason \in DOMAIN seasonLeagueIds
    /\ seasonLeagueIds[selectedSeason] = leagueId

\* ---- C27 ----------------------------------------------------------------
\* C27: a cache entry stored under (kind, leagueId, season) holds data of a
\* league whose own season tag is season; data of the league of the current
\* NFL season is never in the cache.
C27_CacheKeyMatchesLeagueSeason ==
  \A e \in cache :
    /\ SeasonOf(e.lid) = e.season
    /\ SeasonOf(e.lid) # NflSeason

\* ---- C28 ----------------------------------------------------------------
\* C28: loading is true whenever a load is in flight, also when loads
\* overlap: it does not become false before the last of them has finished.
C28_LoadingWhileInFlight == InFlight # {} => loading

\* ---- C29 ----------------------------------------------------------------
\* a call of changeLeagueId or changeSeason has replaced the league id
LeagueChanged == leagueId # DEFAULT_LEAGUE_ID

\* no request is outstanding, loading is false, and the selected season is
\* a key of the season map when the last load succeeded
Settled ==
  /\ Quiet /\ ~loading
  /\ last.pc = "ok" => selectedSeason \in DOMAIN seasonLeagueIds

\* C29: after a call of changeLeagueId or changeSeason, when every request
\* is answered in the end, the provider reaches a state with no load in
\* flight and loading = false, in which selectedSeason is a key of the
\* season map when the load succeeded.
C29_LoadsSettle == LeagueChanged ~> Settled

\* ---- C2 -----------------------------------------------------------------
\* C2: for every previous-league chain (cycles included) and every pattern
\* of rejected fetches, getHistoricalLeagueIds makes at most 5 league
\* fetches, can only continue while it has made fewer than 5, and its list
\* starts with the starting league id and has at most 6 entries.
C2_WalkIsBounded ==
  /\ Len(hw.log) <= maxAttempts
  /\ hw.running => Len(hw.log) < maxAttempts
  /\ Len(hw.ids) <= maxAttempts + 1
  /\ hw.ids[1] = hstart

\* a walk round a cycle that ends with six entries after five fetches
C2_Witness ==
  /\ ~hw.running
  /\ Len(hw.ids) = maxAttempts + 1
  /\ Len(hw.log) = maxAttempts
  /\ \E j \in 2..Len(hw.ids) : hw.ids[j] = hstart

\* ---- C3 -----------------------------------------------------------------
\* C3: a rejected fetch counts as an attempt and the walk goes on; it stops
\* early only when two consecutive fetches were rejected, so a single
\* rejected fetch after successful hops leaves the walk running.
C3_StopsOnlyAfterTwoConsecutiveFailures ==
  (/\ hw.log # <<>>
   /\ Last(hw.log) = "fail"
   /\ hw.attempts < maxAttempts
   /\ ~(Len(hw.log) >= 2 /\ hw.log[Len(hw.log) - 1] = "fail"))
  => hw.running

====
